---- MODULE Spec2Model ----
(***************************************************************************)
(* A model of the core of rcc (the compiler front-end of the coco          *)
(* repository): the scope model (rcc/src/analyser/scope.rs) and the IR     *)
(* builder (rcc/src/ir/ir_build.rs).                                       *)
(*                                                                         *)
(* The module holds several specifications over one set of variables:      *)
(*   Spec        the scope stack driven the way the two passes drive it    *)
(*   SpecLookup  Scope::find_variable on drawn scope chains                *)
(*   SpecUpdate  Scope::update_variable_type on drawn scope chains         *)
(*   SpecFold    bin_op_may_constant_fold on drawn i32 literals            *)
(*   SpecIR      IRBuilder lowering drawn function bodies                  *)
(*   SpecCond    IRBuilder lowering an if / while on a drawn comparison    *)
(* A specification leaves the variables of the others at their idle value. *)
(***************************************************************************)
EXTENDS Integers, Sequences, FiniteSets, TLC

VARIABLES
    scopes,       \* scope id -> Scope {father, variables, cur_stmt_id, temp_count}
    cur_scope,    \* ScopeStack.cur_scope
    scope_stack,  \* ScopeStack.scope_stack
    phase,        \* which pass drives the scope stack: "resolve" or "ir"
    stmt_no,      \* per scope: the index of the statement the resolver is analysing
    let_bound,    \* per scope: the current statement has introduced its binding
    visited,      \* the blocks already walked in the current pass
    last,         \* the last operation, what it was given and what it returned
    prog,         \* the AST handed to the IR builder
    ir            \* the IR builder: the instructions emitted and its bookkeeping

scopeVars == <<scopes, cur_scope, scope_stack, phase, stmt_no, let_bound, visited, last>>
irVars == <<prog, ir>>
scopeVarsButLast == <<scopes, cur_scope, scope_stack, phase, stmt_no, let_bound, visited>>

-----------------------------------------------------------------------------
(* Bounds of the model *)

\* The number of block scopes (ids FirstBlock .. FirstBlock + NumBlocks - 1).
NumBlocks == 2
\* The number of statements the resolver analyses per block.
MaxStmts == 2
\* The number of temporaries generated per scope.
MaxTemps == 1
\* The greatest statement id of a drawn entry (SpecLookup, SpecUpdate).
MaxStmtId == 4

-----------------------------------------------------------------------------
(* Scope ids.  The built-in scope is Scope::new(0); the parser numbers the  *)
(* file scope and then the blocks.                                          *)

BuiltinScope == 0
FileScope == 1
FirstBlock == 2
NoScope == -1          \* Option::None / the null pointer

Blocks == FirstBlock .. (FirstBlock + NumBlocks - 1)
ScopeIds == {BuiltinScope, FileScope} \cup Blocks

Idents == {"a"}

\* A variable name: an identifier, or the temporary "$<n>_<scope_id>".
IdentName(x) == [temp |-> FALSE, ident |-> x, n |-> 0, sid |-> 0]
temp_local_var(n, sid) == [temp |-> TRUE, ident |-> "$", n |-> n, sid |-> sid]

VarInfo(stmt_id, kind, type) == [stmt_id |-> stmt_id, kind |-> kind, type |-> type]

\* Scope::new
NewScope ==
    [father |-> NoScope, types |-> {}, variables |-> << >>, cur_stmt_id |-> 0,
     temp_count |-> 0]

-----------------------------------------------------------------------------
(* Scope *)

\* Scope::add_variable
add_variable(sc, name, kind, type) ==
    LET var_info == VarInfo(sc.cur_stmt_id, kind, type) IN
    IF name \in DOMAIN sc.variables
    THEN [sc EXCEPT !.variables[name] = Append(@, var_info)]
    ELSE [sc EXCEPT !.variables = (name :> <<var_info>>) @@ @]

\* Scope::gen_temp_variable: the scope after it (the name is
\* temp_local_var(sc.temp_count, scope id)).
gen_temp_variable(sc, sid, type) ==
    LET ident == temp_local_var(sc.temp_count, sid) IN
    add_variable([sc EXCEPT !.temp_count = @ + 1], ident, "Local", type)

\* A binary search that narrows the wrong end after Ordering::Greater.
RECURSIVE find_variable_search_narrow(_, _, _, _)
find_variable_search_narrow(v, q, left, right) ==
    IF left < right
    THEN LET mid == (left + right + 1) \div 2
             stmt_id == v[mid + 1].stmt_id
         IN  IF q < stmt_id THEN find_variable_search_narrow(v, q, left, mid - 1)
             ELSE IF q = stmt_id THEN -1
             ELSE find_variable_search_narrow(v, q, mid, right - 1)
    ELSE left

\* The binary search of Scope::find_variable over the entries v (0-based
\* left and right, as in the code).  -1 stands for the unreachable!() panic.
RECURSIVE find_variable_search(_, _, _, _)
find_variable_search(v, q, left, right) ==
    IF left < right
    THEN LET mid == (left + right + 1) \div 2
             stmt_id == v[mid + 1].stmt_id
         IN  IF q < stmt_id THEN find_variable_search(v, q, left, mid - 1)
             ELSE IF q = stmt_id THEN -1
             ELSE find_variable_search(v, q, mid, right)
    ELSE left

NotFound == [found |-> FALSE, panic |-> FALSE, scope |-> NoScope, idx |-> 0]

\* Scope::find_variable started in scope `start`, now looking at scope s.
\* idx is the 0-based position of the returned entry in scs[scope].variables[name].
RECURSIVE find_variable_from(_, _, _, _)
find_variable_from(scs, start, s, name) ==
    IF name \in DOMAIN scs[s].variables
    THEN LET v == scs[s].variables[name]
             right == Len(v) - 1
             i == IF right = 0 THEN 0
                  ELSE find_variable_search(v, scs[start].cur_stmt_id, 0, right)
         IN  [found |-> i >= 0, panic |-> i < 0, scope |-> s, idx |-> i]
    ELSE IF scs[s].father # NoScope
    THEN find_variable_from(scs, start, scs[s].father, name)
    ELSE NotFound

find_variable(scs, start, name) == find_variable_from(scs, start, start, name)

\* Scope::find_fn: TRUE when a function of that name is in the types of the
\* scope or of an ancestor (FALSE stands for TypeInfo::Unknown).
RECURSIVE find_fn(_, _, _)
find_fn(scs, s, ident) ==
    IF ident \in scs[s].types THEN TRUE
    ELSE IF scs[s].father # NoScope THEN find_fn(scs, scs[s].father, ident)
    ELSE FALSE

-----------------------------------------------------------------------------
(* ScopeStack *)

\* ScopeStack::enter_scope: [scopes, cur_scope, scope_stack] after it.
enter_scope(scs, cur, stack, block) ==
    [scopes |-> [scs EXCEPT ![block].father = cur],
     cur_scope |-> block,
     scope_stack |-> Append(stack, cur)]

\* ScopeStack::exit_scope (the driver pairs it with an enter_scope, so the
\* stack is not empty).
exit_scope(scs, cur, stack) ==
    LET s == stack[Len(stack)] IN
    [scopes |-> [scs EXCEPT ![s].cur_stmt_id = 0],
     cur_scope |-> s,
     scope_stack |-> SubSeq(stack, 1, Len(stack) - 1)]

-----------------------------------------------------------------------------
(* Spec: the scope stack as the resolver pass and then the IR-builder pass  *)
(* drive it.                                                                *)

Idle == [op |-> "none"]
NoProg == [kind |-> "none"]
NoIR == [instructions |-> << >>]

InitScopes ==
    [s \in ScopeIds |->
        IF s = FileScope THEN [NewScope EXCEPT !.father = BuiltinScope] ELSE NewScope]

\* After ScopeStack::new and enter_file.
Init ==
    /\ scopes = InitScopes
    /\ cur_scope = FileScope
    /\ scope_stack = << >>
    /\ phase = "resolve"
    /\ stmt_no = [s \in ScopeIds |-> 0]
    /\ let_bound = [s \in ScopeIds |-> FALSE]
    /\ visited = {}
    /\ last = Idle
    /\ prog = NoProg
    /\ ir = NoIR

\* visit_block_expr entering a block: a block is walked once per pass, from
\* the scope that holds it in the AST (the parser numbers an inner block after
\* the block that holds it; the second pass finds the father the first wired).
EnterScope(b) ==
    /\ b \in Blocks \ visited
    /\ b > cur_scope
    /\ phase = "ir" => scopes[b].father = cur_scope
    /\ phase = "resolve" =>
           (cur_scope = FileScope \/ (stmt_no[cur_scope] > 0 /\ ~let_bound[cur_scope]))
    /\ LET r == enter_scope(scopes, cur_scope, scope_stack, b) IN
       /\ scopes' = r.scopes
       /\ cur_scope' = r.cur_scope
       /\ scope_stack' = r.scope_stack
    /\ visited' = visited \cup {b}
    /\ last' = [op |-> "enter_scope", block |-> b, from |-> cur_scope]
    /\ UNCHANGED <<phase, stmt_no, let_bound, prog, ir>>

\* visit_block_expr leaving the block it entered.
ExitScope ==
    /\ scope_stack # << >>
    /\ LET r == exit_scope(scopes, cur_scope, scope_stack) IN
       /\ scopes' = r.scopes
       /\ cur_scope' = r.cur_scope
       /\ scope_stack' = r.scope_stack
       /\ last' = [op |-> "exit_scope", exited |-> cur_scope, enclosing |-> r.cur_scope,
                   exited_before |-> scopes[cur_scope].cur_stmt_id,
                   enclosing_before |-> scopes[r.cur_scope].cur_stmt_id]
    /\ UNCHANGED <<phase, stmt_no, let_bound, visited, prog, ir>>

\* The resolver starts the next statement of the current block: it gives the
\* statement a fresh statement id.
NextStmt ==
    /\ phase = "resolve"
    /\ cur_scope \in Blocks
    /\ stmt_no[cur_scope] < MaxStmts
    /\ stmt_no' = [stmt_no EXCEPT ![cur_scope] = @ + 1]
    /\ scopes' = [scopes EXCEPT ![cur_scope].cur_stmt_id = stmt_no[cur_scope] + 1]
    /\ let_bound' = [let_bound EXCEPT ![cur_scope] = FALSE]
    /\ last' = [op |-> "next_stmt", scope |-> cur_scope]
    /\ UNCHANGED <<cur_scope, scope_stack, phase, visited, prog, ir>>

\* The resolver finishes a let statement: the binding is introduced after the
\* right-hand side was analysed.
LetStmt(x) ==
    /\ phase = "resolve"
    /\ cur_scope \in Blocks
    /\ stmt_no[cur_scope] > 0
    /\ ~let_bound[cur_scope]
    /\ scopes' = [scopes EXCEPT ![cur_scope] = add_variable(@, IdentName(x), "LocalMut", "I32")]
    /\ let_bound' = [let_bound EXCEPT ![cur_scope] = TRUE]
    /\ last' = [op |-> "add_variable", scope |-> cur_scope, ident |-> x]
    /\ UNCHANGED <<cur_scope, scope_stack, phase, stmt_no, visited, prog, ir>>

\* IRBuilder::gen_temp_variable
GenTempVariable ==
    /\ phase = "ir"
    /\ scopes[cur_scope].temp_count < MaxTemps
    /\ scopes' = [scopes EXCEPT ![cur_scope] = gen_temp_variable(@, cur_scope, "I32")]
    /\ last' = [op |-> "gen_temp_variable", scope |-> cur_scope]
    /\ UNCHANGED <<cur_scope, scope_stack, phase, stmt_no, let_bound, visited, prog, ir>>

\* A path expression is looked up from the current scope: by the resolver
\* while it analyses a statement, by the IR builder at any point of its walk.
FindVariable(x) ==
    /\ phase = "resolve" =>
           (cur_scope \in Blocks /\ stmt_no[cur_scope] > 0 /\ ~let_bound[cur_scope])
    /\ last' = [op |-> "find_variable", ident |-> x, start |-> cur_scope,
                q |-> scopes[cur_scope].cur_stmt_id,
                res |-> find_variable(scopes, cur_scope, IdentName(x))]
    /\ UNCHANGED <<scopes, cur_scope, scope_stack, phase, stmt_no, let_bound, visited, prog, ir>>

\* The resolver is done with the file; IRBuilder::visit_file walks it again.
StartIRPass ==
    /\ phase = "resolve"
    /\ scope_stack = << >>
    /\ visited # {}
    /\ phase' = "ir"
    /\ visited' = {}
    /\ last' = [op |-> "generate_ir"]
    /\ UNCHANGED <<scopes, cur_scope, scope_stack, stmt_no, let_bound, prog, ir>>

Next ==
    \/ \E b \in Blocks : EnterScope(b)
    \/ ExitScope
    \/ NextStmt
    \/ \E x \in Idents : LetStmt(x)
    \/ GenTempVariable
    \/ \E x \in Idents : FindVariable(x)
    \/ StartIRPass

vars == <<scopeVars, irVars>>

Spec == Init /\ [][Next]_vars

-----------------------------------------------------------------------------
(* Claims about the scope stack (Spec) *)

StrictlyIncreasing(v) ==
    \A i \in 1 .. Len(v) - 1 : v[i].stmt_id < v[i + 1].stmt_id

\* The ancestors of scope s along the father pointers, nearest first.
RECURSIVE Ancestors(_, _)
Ancestors(scs, s) ==
    IF scs[s].father = NoScope THEN << >>
    ELSE <<scs[s].father>> \o Ancestors(scs, scs[s].father)

DefinesIn(scs, s, name) == name \in DOMAIN scs[s].variables

\* C4: shadowing is visible only after the shadowing let.  A lookup at
\* cur_stmt_id = q never returns an entry of the starting scope whose stmt_id
\* is greater than q; when every entry of the starting scope is later than q
\* and an ancestor defines the identifier, the lookup returns an entry of an
\* ancestor together with the ancestor's scope id.
C4_ShadowingOnlyAfterLet ==
    last.op = "find_variable" =>
        LET name == IdentName(last.ident)
            res == last.res
            own == IF DefinesIn(scopes, last.start, name)
                   THEN scopes[last.start].variables[name] ELSE << >>
            anc == Ancestors(scopes, last.start)
        IN  /\ (res.found /\ res.scope = last.start) =>
                   own[res.idx + 1].stmt_id <= last.q
            /\ ( /\ own # << >>
                 /\ \A i \in 1 .. Len(own) : own[i].stmt_id > last.q
                 /\ \E k \in 1 .. Len(anc) : DefinesIn(scopes, anc[k], name) )
               => (res.found /\ res.scope # last.start
                   /\ \E k \in 1 .. Len(anc) : anc[k] = res.scope)

\* C5: in every scope the entries of every identifier are strictly
\* increasing in stmt_id, whatever the passes did so far.
C5_EntriesStrictlyIncreasing ==
    \A s \in ScopeIds : \A name \in DOMAIN scopes[s].variables :
        StrictlyIncreasing(scopes[s].variables[name])

\* C6: exit_scope resets the cur_stmt_id of the scope that is left to zero
\* and leaves the cur_stmt_id of the enclosing scope, which becomes current
\* again, as it was.
C6_ExitResetsExitedScope ==
    last.op = "exit_scope" =>
        /\ cur_scope = last.enclosing
        /\ scopes[last.exited].cur_stmt_id = 0
        /\ scopes[last.enclosing].cur_stmt_id = last.enclosing_before

-----------------------------------------------------------------------------
(* SpecLookup: Scope::find_variable on drawn scope chains.  The inner block *)
(* (the starting scope) and the block that holds it each have any strictly  *)
(* increasing sequence of entries for the identifier and any cur_stmt_id.   *)

OuterBlock == FirstBlock
InnerBlock == FirstBlock + 1

StmtIds == 1 .. MaxStmtId
\* The statement ids of S in increasing order, as the entries of one identifier.
RECURSIVE EntriesOf(_, _)
EntriesOf(S, type) ==
    IF S = {} THEN << >>
    ELSE LET m == CHOOSE x \in S : \A y \in S : y <= x
         IN  Append(EntriesOf(S \ {m}, type), VarInfo(m, "LocalMut", type))

\* A scope with the given father, entries for "a" (none when v is empty) and
\* statement counter.
DrawnScope(father, v, q) ==
    [father |-> father,
     variables |-> IF v = << >> THEN << >> ELSE (IdentName("a") :> v),
     cur_stmt_id |-> q, temp_count |-> 0]

DrawnChain(vOuter, qOuter, vInner, qInner) ==
    [s \in ScopeIds |->
        IF s = OuterBlock THEN DrawnScope(FileScope, vOuter, qOuter)
        ELSE IF s = InnerBlock THEN DrawnScope(OuterBlock, vInner, qInner)
        ELSE InitScopes[s]]

InitLookup ==
    /\ \E SO \in SUBSET StmtIds, SI \in SUBSET StmtIds,
          qo \in 0 .. MaxStmtId + 1, qi \in 0 .. MaxStmtId + 1 :
          scopes = DrawnChain(EntriesOf(SO, "I32"), qo, EntriesOf(SI, "I32"), qi)
    /\ cur_scope = InnerBlock
    /\ scope_stack = <<FileScope, OuterBlock>>
    /\ phase = "lookup"
    /\ stmt_no = [s \in ScopeIds |-> 0]
    /\ let_bound = [s \in ScopeIds |-> FALSE]
    /\ visited = {}
    /\ last = Idle
    /\ prog = NoProg
    /\ ir = NoIR

\* Scope::find_variable("a") from the current scope.
Lookup ==
    /\ last = Idle
    /\ last' = [op |-> "find_variable", ident |-> "a", start |-> cur_scope,
                q |-> scopes[cur_scope].cur_stmt_id,
                res |-> find_variable(scopes, cur_scope, IdentName("a"))]
    /\ UNCHANGED <<scopes, cur_scope, scope_stack, phase, stmt_no, let_bound, visited, prog, ir>>

NextLookup == Lookup

SpecLookup == InitLookup /\ [][NextLookup]_vars

\* The entries of "a" in the scope the last lookup started in.
OwnEntries ==
    IF DefinesIn(scopes, last.start, IdentName(last.ident))
    THEN scopes[last.start].variables[IdentName(last.ident)] ELSE << >>

\* C3: within one scope, with entries strictly increasing in stmt_id, none
\* equal to cur_stmt_id and at least one below it, find_variable returns the
\* entry with the greatest stmt_id < cur_stmt_id and that scope's id.
C3_GreatestEntryBelow ==
    (/\ last.op = "find_variable"
     /\ OwnEntries # << >>
     /\ StrictlyIncreasing(OwnEntries)
     /\ \A i \in 1 .. Len(OwnEntries) : OwnEntries[i].stmt_id # last.q
     /\ \E i \in 1 .. Len(OwnEntries) : OwnEntries[i].stmt_id < last.q)
    => /\ last.res.found
       /\ last.res.scope = last.start
       /\ last.res.idx \in 0 .. Len(OwnEntries) - 1
       /\ OwnEntries[last.res.idx + 1].stmt_id < last.q
       /\ \A i \in 1 .. Len(OwnEntries) :
              OwnEntries[i].stmt_id < last.q
                  => OwnEntries[i].stmt_id <= OwnEntries[last.res.idx + 1].stmt_id

\* C3's case: three entries, cur_stmt_id between the second and the third,
\* and the lookup has returned the second.
C3_Witness ==
    /\ last.op = "find_variable"
    /\ Len(OwnEntries) = 3
    /\ OwnEntries[2].stmt_id < last.q
    /\ last.q < OwnEntries[3].stmt_id
    /\ last.res.found
    /\ last.res.idx = 1

-----------------------------------------------------------------------------
(* Types and Scope::update_variable_type *)

Types == {"Bool", "Never", "Unknown", "I", "I32", "F", "F64"}
IntegerTypes == {"I32"}
FloatTypes == {"F64"}

\* TypeInfo::partial_cmp, the partial order on types: equal types are Equal;
\* Unknown compares equal to everything; Never is below every type; the
\* unresolved literal kinds I and F are below the concrete integer and float
\* types; every other pair is incomparable ("None").
TypeCmp(a, b) ==
    IF a = b \/ a = "Unknown" \/ b = "Unknown" THEN "Equal"
    ELSE IF a = "Never" THEN "Less"
    ELSE IF b = "Never" THEN "Greater"
    ELSE IF a = "I" /\ b \in IntegerTypes THEN "Less"
    ELSE IF b = "I" /\ a \in IntegerTypes THEN "Greater"
    ELSE IF a = "F" /\ b \in FloatTypes THEN "Less"
    ELSE IF b = "F" /\ a \in FloatTypes THEN "Greater"
    ELSE "None"

\* a <= b in the partial order
TypeLe(a, b) == TypeCmp(a, b) \in {"Less", "Equal"}

\* What a build can produce where the code leaves it open: the profile
\* (debug_assert_ne! is compiled only into a debug build) and the VarInfo read
\* by get_unchecked one past the end of the entries.
Oracles ==
    [debug : BOOLEAN, stmt_id : {0, MaxStmtId + 2}, type : Types]

\* The binary search of Scope::find_variable_mut: right starts at v.len(), so
\* mid can be v.len(), and get_unchecked(mid) then reads past the entries
\* (the oracle's stmt_id).  -1 stands for the debug_assert_ne! panic.
RECURSIVE find_variable_mut_search(_, _, _, _, _)
find_variable_mut_search(v, q, left, right, g) ==
    IF left < right
    THEN LET mid == (left + right + 1) \div 2
             stmt_id == IF mid < Len(v) THEN v[mid + 1].stmt_id ELSE g.stmt_id
         IN  IF g.debug /\ stmt_id = q THEN -1
             ELSE IF q < stmt_id THEN find_variable_mut_search(v, q, left, mid - 1, g)
             ELSE find_variable_mut_search(v, q, mid, right, g)
    ELSE left

\* Scope::find_variable_mut started in scope `start`, now looking at scope s.
\* idx = Len of the entries says the returned reference is past the entries.
RECURSIVE find_variable_mut_from(_, _, _, _, _)
find_variable_mut_from(scs, start, s, name, g) ==
    IF name \in DOMAIN scs[s].variables
    THEN LET v == scs[s].variables[name]
             right == Len(v)
             i == IF right = 1 THEN 0
                  ELSE find_variable_mut_search(v, scs[start].cur_stmt_id, 0, right, g)
         IN  [found |-> i >= 0, panic |-> i < 0, scope |-> s, idx |-> i]
    ELSE IF scs[s].father # NoScope
    THEN find_variable_mut_from(scs, start, scs[s].father, name, g)
    ELSE NotFound

find_variable_mut(scs, start, name, g) == find_variable_mut_from(scs, start, start, name, g)

\* An update_variable_type that stores the new type whenever the comparison
\* allows it, Never included.
update_variable_type_stores_never(scs, start, name, new_type, g) ==
    LET r == find_variable_mut(scs, start, name, g) IN
    IF r.panic THEN [result |-> "panic", scopes |-> scs]
    ELSE IF ~r.found THEN [result |-> "not found", scopes |-> scs]
    ELSE LET v == scs[r.scope].variables[name]
             in_bounds == r.idx < Len(v)
             cur_type == IF in_bounds THEN v[r.idx + 1].type ELSE g.type
         IN  IF TypeCmp(cur_type, new_type) \in {"Greater", "Equal"}
             THEN [result |-> "ok",
                   scopes |-> IF in_bounds
                              THEN [scs EXCEPT ![r.scope].variables[name][r.idx + 1].type = new_type]
                              ELSE scs]
             ELSE [result |-> "invalid type", scopes |-> scs]

\* Scope::update_variable_type: [result, scopes] after it.  A write through a
\* reference past the entries changes no entry.
update_variable_type(scs, start, name, new_type, g) ==
    LET r == find_variable_mut(scs, start, name, g) IN
    IF r.panic THEN [result |-> "panic", scopes |-> scs]
    ELSE IF ~r.found THEN [result |-> "not found", scopes |-> scs]
    ELSE LET v == scs[r.scope].variables[name]
             in_bounds == r.idx < Len(v)
             cur_type == IF in_bounds THEN v[r.idx + 1].type ELSE g.type
         IN  IF TypeCmp(cur_type, new_type) \in {"Greater", "Equal"}
             THEN [result |-> "ok",
                   scopes |-> IF new_type # "Never" /\ in_bounds
                              THEN [scs EXCEPT ![r.scope].variables[name][r.idx + 1].type = new_type]
                              ELSE scs]
             ELSE [result |-> "invalid type", scopes |-> scs]

-----------------------------------------------------------------------------
(* SpecUpdate: Scope::update_variable_type on drawn scope chains: the inner *)
(* block has any strictly increasing entries of one type; when it has none, *)
(* the outer block has none or one entry.                                   *)

InitUpdate ==
    /\ \E SI \in SUBSET StmtIds, SO \in {{}, {1}}, qi \in 0 .. MaxStmtId + 1,
          ti \in Types, to \in Types :
          /\ (SI = {} => ti = "Bool")
          /\ (SI # {} => SO = {})
          /\ (SO = {} => to = "Bool")
          /\ scopes = DrawnChain(EntriesOf(SO, to), 1, EntriesOf(SI, ti), qi)
    /\ cur_scope = InnerBlock
    /\ scope_stack = <<FileScope, OuterBlock>>
    /\ phase = "update"
    /\ stmt_no = [s \in ScopeIds |-> 0]
    /\ let_bound = [s \in ScopeIds |-> FALSE]
    /\ visited = {}
    /\ last = Idle
    /\ prog = NoProg
    /\ ir = NoIR

\* Scope::update_variable_type("a", new_type) on the current scope.
UpdateVariableType(new_type, g) ==
    /\ last = Idle
    /\ LET r == update_variable_type(scopes, cur_scope, IdentName("a"), new_type, g) IN
       /\ scopes' = r.scopes
       /\ last' = [op |-> "update_variable_type", ident |-> "a", start |-> cur_scope,
                   q |-> scopes[cur_scope].cur_stmt_id,
                   new_type |-> new_type, result |-> r.result, before |-> scopes,
                   mut |-> find_variable_mut(scopes, cur_scope, IdentName("a"), g),
                   res |-> find_variable(scopes, cur_scope, IdentName("a"))]
    /\ UNCHANGED <<cur_scope, scope_stack, phase, stmt_no, let_bound, visited, prog, ir>>

NextUpdate == \E new_type \in Types, g \in Oracles : UpdateVariableType(new_type, g)

SpecUpdate == InitUpdate /\ [][NextUpdate]_vars

\* The type of the entry the lookup res points at, in the scopes scs.
TypeAt(scs, res, name) == scs[res.scope].variables[name][res.idx + 1].type

\* C7, for every new_type other than Never: on a visible variable (the entry
\* find_variable returns) update_variable_type succeeds and replaces the
\* variable's type iff new_type <= the current type; otherwise it returns
\* "invalid type" and changes nothing; when no variable of that name is
\* visible it returns the not-found error and changes nothing.  Nothing is
\* asked where find_variable itself panics.
C7_UpdateIffLessOrEqual ==
    (last.op = "update_variable_type" /\ last.new_type # "Never") =>
        LET name == IdentName(last.ident) IN
        IF last.res.found
        THEN IF TypeLe(last.new_type, TypeAt(last.before, last.res, name))
             THEN /\ last.result = "ok"
                  /\ TypeAt(scopes, last.res, name) = last.new_type
             ELSE /\ last.result = "invalid type"
                  /\ scopes = last.before
        ELSE last.res.panic \/ (last.result = "not found" /\ scopes = last.before)

\* C8 as stated: update_variable_type with new_type = Never fails with
\* "invalid type" and leaves the variable's type unchanged.
C8_NeverIsRejected ==
    (/\ last.op = "update_variable_type"
     /\ last.new_type = "Never"
     /\ last.mut.found)
    => (last.result = "invalid type" /\ scopes = last.before)

\* C8 as amended: update_variable_type with new_type = Never, when its lookup
\* returns an entry, returns Ok(()) and leaves every variable's type
\* unchanged, for every current type of the variable.
C8_NeverIsAcceptedAndIgnored ==
    (/\ last.op = "update_variable_type"
     /\ last.new_type = "Never"
     /\ last.mut.found)
    => (last.result = "ok" /\ scopes = last.before)

\* C8's case: the visible entry has a concrete type and the update with Never
\* has returned.
C8_Witness ==
    /\ last.op = "update_variable_type"
    /\ last.new_type = "Never"
    /\ last.res.found
    /\ last.mut.found
    /\ last.mut.idx = last.res.idx
    /\ Len(OwnEntries) >= 2
    /\ OwnEntries[last.res.idx + 1].stmt_id < last.q
    /\ TypeAt(last.before, last.res, IdentName(last.ident)) = "I32"
    /\ last.result = "ok"

-----------------------------------------------------------------------------
(* Constant folding: bin_op_may_constant_fold *)

I32Max == 2147483647
I32Min == -I32Max - 1

\* Two's complement words as sequences of bytes, lowest byte first.
RECURSIVE NatBytes(_, _)
NatBytes(n, k) == IF k = 0 THEN << >> ELSE <<n % 256>> \o NatBytes(n \div 256, k - 1)
RECURSIVE BytesNat(_)
BytesNat(w) == IF w = << >> THEN 0 ELSE w[1] + 256 * BytesNat(Tail(w))

\* The 4 bytes of an i32, and the i32 of 4 bytes.
ToWord(x) ==
    IF x >= 0 THEN NatBytes(x, 4)
    ELSE LET w == NatBytes(x - I32Min, 4) IN SubSeq(w, 1, 3) \o <<w[4] + 128>>
FromWord(w) ==
    IF w[4] >= 128 THEN BytesNat(SubSeq(w, 1, 3) \o <<w[4] - 128>>) + I32Min
    ELSE BytesNat(w)

ZeroWord(n) == [i \in 1 .. n |-> 0]
SignByte(w) == IF w[Len(w)] >= 128 THEN 255 ELSE 0
SignExtend(w, n) == [i \in 1 .. n |-> IF i <= Len(w) THEN w[i] ELSE SignByte(w)]
NotWord(w) == [i \in 1 .. Len(w) |-> 255 - w[i]]

\* a + b + carry on words of one length, the carry out dropped.
RECURSIVE AddWords(_, _, _)
AddWords(a, b, carry) ==
    IF a = << >> THEN << >>
    ELSE LET t == a[1] + b[1] + carry
         IN  <<t % 256>> \o AddWords(Tail(a), Tail(b), t \div 256)
SubWords(a, b) == AddWords(a, NotWord(b), 1)

\* a * byte + carry, on the length of a.
RECURSIVE MulByte(_, _, _)
MulByte(a, byte, carry) ==
    IF a = << >> THEN << >>
    ELSE LET t == a[1] * byte + carry
         IN  <<t % 256>> \o MulByte(Tail(a), byte, t \div 256)

\* a * b on words of one length, the high half dropped.
RECURSIVE MulWords(_, _)
MulWords(a, b) ==
    IF b = << >> THEN ZeroWord(Len(a))
    ELSE AddWords(MulByte(a, b[1], 0),
                  <<0>> \o SubSeq(MulWords(a, Tail(b)), 1, Len(a) - 1), 0)

\* Option<i32>
None == [some |-> FALSE]
Some(v) == [some |-> TRUE, val |-> v]

\* The wide result fits an i32 iff the bytes above the fourth repeat its sign.
Fits(wide) == \A i \in 5 .. Len(wide) : wide[i] = SignByte(SubSeq(wide, 1, 4))
Low32(wide) == FromWord(SubSeq(wide, 1, 4))
Checked(wide) == IF Fits(wide) THEN Some(Low32(wide)) ELSE None

\* An addition that keeps the low 32 bits of the sum.
wrapping_add(l, r) == Some(Low32(AddWords(ToWord(l), ToWord(r), 0)))

\* i32::checked_add, checked_sub, checked_mul: the operation at a width that
\* holds the exact result, None when that does not fit 32 bits.
checked_add(l, r) ==
    Checked(AddWords(SignExtend(ToWord(l), 5), SignExtend(ToWord(r), 5), 0))
checked_sub(l, r) ==
    Checked(SubWords(SignExtend(ToWord(l), 5), SignExtend(ToWord(r), 5)))
checked_mul(l, r) ==
    Checked(MulWords(SignExtend(ToWord(l), 8), SignExtend(ToWord(r), 8)))

\* Rust's / and % on integers truncate toward zero.
TruncDiv(l, r) ==
    IF r = I32Min THEN (IF l = I32Min THEN 1 ELSE 0)
    ELSE LET b == IF r < 0 THEN -r ELSE r
             t == IF l < 0 /\ l % b # 0 THEN (l \div b) + 1 ELSE l \div b
         IN  IF r < 0 THEN -t ELSE t
TruncRem(l, r) == l - r * TruncDiv(l, r)

\* l % r that wraps on MIN % -1 (i32::wrapping_rem) instead of reporting it.
wrapping_rem(l, r) ==
    IF r = 0 THEN None
    ELSE IF l = I32Min /\ r = -1 THEN Some(0)
    ELSE Some(TruncRem(l, r))

\* i32::checked_div, checked_rem: None when r = 0 or on MIN / -1.
checked_div(l, r) ==
    IF r = 0 \/ (l = I32Min /\ r = -1) THEN None ELSE Some(TruncDiv(l, r))
checked_rem(l, r) ==
    IF r = 0 \/ (l = I32Min /\ r = -1) THEN None ELSE Some(TruncRem(l, r))

RECURSIVE Pow2(_)
Pow2(n) == IF n = 0 THEN 1 ELSE 2 * Pow2(n - 1)
\* The 4-byte word of 2^r, r < 32.
PowWord(r) == [i \in 1 .. 4 |-> IF i = (r \div 8) + 1 THEN Pow2(r % 8) ELSE 0]
\* l >> r on an i32: r halvings, rounding down.
RECURSIVE ShrBy(_, _)
ShrBy(l, r) == IF r = 0 THEN l ELSE ShrBy(l \div 2, r - 1)

\* i32::checked_shl, checked_shr called with `r as u32`: None when the amount
\* is 32 or more, which a negative r is after the cast.
checked_shl(l, r) ==
    IF r < 0 \/ r >= 32 THEN None
    ELSE Some(FromWord(MulWords(ToWord(l), PowWord(r))))
checked_shr(l, r) ==
    IF r < 0 \/ r >= 32 THEN None ELSE Some(ShrBy(l, r))

\* x & y, x | y, x ^ y on the n low bits of two bytes.
RECURSIVE ByteOp(_, _, _, _)
ByteOp(op, x, y, n) ==
    IF n = 0 THEN 0
    ELSE LET bit == CASE op = "And" -> (x % 2) * (y % 2)
                      [] op = "Or" -> IF (x % 2) + (y % 2) > 0 THEN 1 ELSE 0
                      [] op = "Caret" -> ((x % 2) + (y % 2)) % 2
         IN  bit + 2 * ByteOp(op, x \div 2, y \div 2, n - 1)

\* l & r, l | r, l ^ r
Bitwise(op, l, r) ==
    FromWord([i \in 1 .. 4 |-> ByteOp(op, ToWord(l)[i], ToWord(r)[i], 8)])

\* Operand
OpI32(v) == [kind |-> "I32", val |-> v]
OpBool(b) == [kind |-> "Bool", val |-> b]
OpPlace(name) == [kind |-> "Place", val |-> name]
OpUnit == [kind |-> "Unit", val |-> 0]

\* Result<Option<Operand>, RccError>
Ok(v) == [ok |-> TRUE, val |-> v]
Err(msg) == [ok |-> FALSE, msg |-> msg]

\* Some(Operand::I32(res)) of a checked operation, or the error.
FoldChecked(c, msg) == IF c.some THEN Ok(Some(OpI32(c.val))) ELSE Err(msg)

bin_op_may_constant_fold(op, src1, src2) ==
    IF src1.kind = "I32" /\ src2.kind = "I32"
    THEN LET l == src1.val
             r == src2.val
         IN  CASE op = "Plus" -> FoldChecked(checked_add(l, r), "add overflow")
               [] op = "Minus" -> FoldChecked(checked_sub(l, r), "sub overflow")
               [] op = "Star" -> FoldChecked(checked_mul(l, r), "mul overflow")
               [] op = "Slash" -> FoldChecked(checked_div(l, r), "div overflow")
               [] op = "Lt" -> Ok(Some(OpBool(l < r)))
               [] op = "Le" -> Ok(Some(OpBool(l <= r)))
               [] op = "Gt" -> Ok(Some(OpBool(l > r)))
               [] op = "Ge" -> Ok(Some(OpBool(l >= r)))
               [] op = "Ne" -> Ok(Some(OpBool(l # r)))
               [] op = "EqEq" -> Ok(Some(OpBool(l = r)))
               [] op = "Shl" -> FoldChecked(checked_shl(l, r), "shl overflow")
               [] op = "Shr" -> FoldChecked(checked_shr(l, r), "shr overflow")
               [] op = "And" -> Ok(Some(OpI32(Bitwise("And", l, r))))
               [] op = "Or" -> Ok(Some(OpI32(Bitwise("Or", l, r))))
               [] op = "Caret" -> Ok(Some(OpI32(Bitwise("Caret", l, r))))
               [] op = "Percent" -> FoldChecked(checked_rem(l, r), "rem overflow")
               [] OTHER -> Ok(None)
    ELSE Ok(None)

-----------------------------------------------------------------------------
(* SpecFold: bin_op_may_constant_fold on drawn operators and operands *)

\* How far the drawn literals reach from the ends of the i32 range and from 0.
Edge == 1

CmpOperators == {"EqEq", "Ne", "Lt", "Le", "Gt", "Ge"}
BinOperators ==
    {"Plus", "Minus", "Star", "Slash", "Percent", "Shl", "Shr", "And", "Or",
     "Caret", "AndAnd", "OrOr"} \cup CmpOperators

\* i32 literals: the ends of the range, around zero, around the square root
\* of 2^31, and the shift amounts at the limit.
I32Samples ==
    {I32Min + k : k \in 0 .. Edge} \cup (-Edge .. Edge) \cup {I32Max - k : k \in 0 .. Edge}
        \cup {46340, 46341, -46341, 65536, -32768, 31, 32}

FoldOperands == {OpI32(v) : v \in I32Samples} \cup {OpPlace("a")}

InitFold ==
    /\ \E op \in BinOperators, src1 \in FoldOperands, src2 \in FoldOperands :
          prog = [kind |-> "BinOp", bin_op |-> op, lhs |-> src1, rhs |-> src2]
    /\ ir = NoIR
    /\ scopes = InitScopes
    /\ cur_scope = FileScope
    /\ scope_stack = << >>
    /\ phase = "fold"
    /\ stmt_no = [s \in ScopeIds |-> 0]
    /\ let_bound = [s \in ScopeIds |-> FALSE]
    /\ visited = {}
    /\ last = Idle

\* bin_op_may_constant_fold(&bin_op, &lhs, &rhs)
Fold ==
    /\ last = Idle
    /\ last' = [op |-> "bin_op_may_constant_fold",
                result |-> bin_op_may_constant_fold(prog.bin_op, prog.lhs, prog.rhs)]
    /\ UNCHANGED <<scopeVarsButLast, prog, ir>>

NextFold == Fold

SpecFold == InitFold /\ [][NextFold]_vars

\* The exact l + r, l - r, l * r lies in the i32 range (stated without
\* leaving that range).
InRangeSum(l, r) == IF r >= 0 THEN l <= I32Max - r ELSE l >= I32Min - r
InRangeDiff(l, r) == IF r >= 0 THEN l >= I32Min + r ELSE l <= I32Max + r
InRangeProd(l, r) ==
    IF l = 0 \/ r = 0 \/ l = 1 \/ r = 1 THEN TRUE
    ELSE IF l = -1 THEN r # I32Min
    ELSE IF r = -1 THEN l # I32Min
    ELSE IF l = I32Min \/ r = I32Min THEN FALSE
    ELSE LET a == IF l < 0 THEN -l ELSE l
             b == IF r < 0 THEN -r ELSE r
         IN  IF (l < 0) = (r < 0) THEN a <= I32Max \div b
             ELSE a <= I32Max \div b \/ (I32Min % b = 0 /\ -a = I32Min \div b)

InRange(op, l, r) ==
    CASE op = "Plus" -> InRangeSum(l, r)
      [] op = "Minus" -> InRangeDiff(l, r)
      [] op = "Star" -> InRangeProd(l, r)

Exact(op, l, r) ==
    CASE op = "Plus" -> l + r
      [] op = "Minus" -> l - r
      [] op = "Star" -> l * r

OverflowMsg(op) ==
    CASE op = "Plus" -> "add overflow"
      [] op = "Minus" -> "sub overflow"
      [] op = "Star" -> "mul overflow"

\* C10: bin_op_may_constant_fold on two i32 literals with op in {+, -, *}
\* returns I32 of the exact mathematical result whenever that result is in
\* the i32 range, and the add/sub/mul overflow error whenever it is not; it
\* never returns a wrapped value.
C10_FoldExactOrOverflow ==
    (/\ last.op = "bin_op_may_constant_fold"
     /\ prog.bin_op \in {"Plus", "Minus", "Star"}
     /\ prog.lhs.kind = "I32"
     /\ prog.rhs.kind = "I32")
    => IF InRange(prog.bin_op, prog.lhs.val, prog.rhs.val)
       THEN last.result = Ok(Some(OpI32(Exact(prog.bin_op, prog.lhs.val, prog.rhs.val))))
       ELSE last.result = Err(OverflowMsg(prog.bin_op))

\* C10's case: I32Max + 1 has been folded, and reported as an overflow.
C10_Witness ==
    /\ last.op = "bin_op_may_constant_fold"
    /\ prog.bin_op = "Plus"
    /\ prog.lhs = OpI32(I32Max)
    /\ prog.rhs = OpI32(1)
    /\ last.result = Err("add overflow")

\* r # 0 divides d.
Divides(r, d) ==
    IF r = I32Min THEN d = 0 \/ d = I32Min
    ELSE d % (IF r < 0 THEN -r ELSE r) = 0

\* m is the remainder of l by r # 0, truncating toward zero: l - m is a
\* multiple of r, m is smaller than r in magnitude and has l's sign.
IsTruncRem(l, r, m) ==
    /\ (l >= 0 => m >= 0)
    /\ (l <= 0 => m <= 0)
    /\ (r > 0 => -r < m /\ m < r)
    /\ (r < 0 => r < m /\ (r = I32Min \/ m < -r))
    /\ Divides(r, l - m)

\* C11: bin_op_may_constant_fold on two i32 literals with op / or %: an
\* error when the right operand is 0 and when the operands are i32::MIN and
\* -1; in every other case I32 of the truncating quotient (for /) or of the
\* truncating remainder (for %).
C11_DivRemTruncateOrFail ==
    (/\ last.op = "bin_op_may_constant_fold"
     /\ prog.bin_op \in {"Slash", "Percent"}
     /\ prog.lhs.kind = "I32"
     /\ prog.rhs.kind = "I32")
    => LET l == prog.lhs.val
           r == prog.rhs.val
       IN  IF r = 0 \/ (l = I32Min /\ r = -1)
           THEN last.result = Err(IF prog.bin_op = "Slash" THEN "div overflow"
                                  ELSE "rem overflow")
           ELSE /\ last.result.ok
                /\ last.result.val.some
                /\ last.result.val.val.kind = "I32"
                /\ IF prog.bin_op = "Slash"
                   THEN IsTruncRem(l, r, l - last.result.val.val.val * r)
                   ELSE IsTruncRem(l, r, last.result.val.val.val)

\* C11's case: i32::MIN % -1 has been folded, and reported as an error.
C11_Witness ==
    /\ last.op = "bin_op_may_constant_fold"
    /\ prog.bin_op = "Percent"
    /\ prog.lhs = OpI32(I32Min)
    /\ prog.rhs = OpI32(-1)
    /\ last.result = Err("rem overflow")

-----------------------------------------------------------------------------
(* The AST the IR builder walks *)

NoExpr == [kind |-> "none"]          \* Option<Expr>::None
\* LitNumExpr of type i32; value is the literal's text, a sequence of digits
LitNumExpr(value) == [kind |-> "LitNum", value |-> value]
LitBool(v) == [kind |-> "LitBool", value |-> v]
BinOpExpr(op, lhs, rhs) == [kind |-> "BinOp", bin_op |-> op, lhs |-> lhs, rhs |-> rhs]
BlockExpr(scope_id, stmts, last_expr) ==
    [kind |-> "Block", scope_id |-> scope_id, stmts |-> stmts, last_expr |-> last_expr]
IfExpr(conditions, blocks) == [kind |-> "If", conditions |-> conditions, blocks |-> blocks]
WhileExpr(cond, block) == [kind |-> "While", cond |-> cond, block |-> block]
LoopExpr(block) == [kind |-> "Loop", expr |-> block]
BreakExpr(e) == [kind |-> "Break", expr |-> e]
ExprStmt(e) == [kind |-> "ExprStmt", expr |-> e]
ItemFn(name, fn_block) == [kind |-> "Fn", name |-> name, fn_block |-> fn_block]
File(items, num_scopes) == [kind |-> "File", items |-> items, num_scopes |-> num_scopes]
PathExpr(ident) == [kind |-> "Path", ident |-> ident]
LitChar(c) == [kind |-> "LitChar", value |-> c]
LitStr(str) == [kind |-> "LitStr", value |-> str]
CallExpr(expr, call_params) == [kind |-> "Call", expr |-> expr, call_params |-> call_params]
ReturnExpr(e) == [kind |-> "Return", expr |-> e]
AssignExpr(lhs, assign_op, rhs) ==
    [kind |-> "Assign", lhs |-> lhs, assign_op |-> assign_op, rhs |-> rhs]
StmtLet(ident, is_mut, rhs) == [kind |-> "Let", ident |-> ident, is_mut |-> is_mut, rhs |-> rhs]
StmtItem(item) == [kind |-> "Item", item |-> item]
\* An ItemFn with parameters (identifiers of type i32).
ItemFnParams(name, params, fn_block) == [params |-> params] @@ ItemFn(name, fn_block)
FnParams(item_fn) == IF "params" \in DOMAIN item_fn THEN item_fn.params ELSE << >>

\* The type the resolver has left on an expression node.  In the programs
\* drawn every variable and every function result is an i32.
RECURSIVE type_info(_)
type_info(e) ==
    CASE e.kind = "LitNum" -> "I32"
      [] e.kind = "LitBool" -> "Bool"
      [] e.kind = "LitChar" -> "Char"
      [] e.kind = "LitStr" -> "Str"
      [] e.kind = "Path" -> "I32"
      [] e.kind = "Call" -> "I32"
      [] e.kind = "BinOp" ->
            IF e.bin_op \in CmpOperators \cup {"AndAnd", "OrOr"} THEN "Bool"
            ELSE type_info(e.lhs)
      [] e.kind = "Block" -> IF e.last_expr # NoExpr THEN type_info(e.last_expr) ELSE "Unit"
      [] e.kind \in {"Break", "Return"} -> "Never"
      [] OTHER -> "Unit"

\* str::parse::<i32> on a literal's digits.
RECURSIVE DecimalValue(_)
DecimalValue(digits) ==
    IF digits = << >> THEN 0
    ELSE 10 * DecimalValue(SubSeq(digits, 1, Len(digits) - 1)) + digits[Len(digits)]
RECURSIVE DecimalDigits(_)
DecimalDigits(n) == IF n < 10 THEN <<n>> ELSE DecimalDigits(n \div 10) \o <<n % 10>>

-----------------------------------------------------------------------------
(* IR: operands, places, instructions *)

NoPlace == [kind |-> "none"]          \* Option<Place>::None
\* Place::local(label): a temporary made by gen_temp_variable
PlaceLocal(label) == [kind |-> "place", label |-> label]
is_temp(d) == d.label.temp
\* Place::variable(ident, scope_id, kind): "<ident>_<scope_id>" and the kind
PlaceVariable(ident, scope_id, var_kind) ==
    [var_kind |-> var_kind]
        @@ PlaceLocal([temp |-> FALSE, ident |-> ident, n |-> 0, sid |-> scope_id])
OpChar(c) == [kind |-> "Char", val |-> c]
OpFnLabel(ident) == [kind |-> "FnLabel", val |-> ident]
OpFnRetPlace == [kind |-> "FnRetPlace", val |-> 0]
\* The label ".str.<n>" of a string in the read-only data
OpRoLabel(n) == [kind |-> "RoLabel", val |-> n]
OpNever == [kind |-> "Never", val |-> 0]
is_unit_or_never(operand) == operand.kind \in {"Unit", "Never"}

IRJump(label) == [inst |-> "Jump", label |-> label]
IRJumpIfNot(cond, label) == [inst |-> "JumpIfNot", cond |-> cond, label |-> label]
IRJumpIfCond(jump, src1, src2, label) ==
    [inst |-> "JumpIfCond", cmp |-> jump, src1 |-> src1, src2 |-> src2, label |-> label]
IRLoadData(dest, src) == [inst |-> "LoadData", dest |-> dest, src |-> src]
IRBinOp(op, ty, dest, src1, src2) ==
    [inst |-> "BinOp", op |-> op, ty |-> ty, dest |-> dest, src1 |-> src1, src2 |-> src2]
IRRet(operand) == [inst |-> "Ret", operand |-> operand]
IRCall(callee, params) == [inst |-> "Call", callee |-> callee, params |-> params]
IsJump(inst) == inst.inst \in {"Jump", "JumpIfNot", "JumpIfCond"}

\* IRBuilder::new.  ghost and ghost_loops are not in the code: they note, for
\* each jump emitted, the instruction the construct it belongs to means it
\* to land on, and, per open loop, the jumps that leave it.
NewIRBuilder(optimize_level, debug) ==
    [instructions |-> << >>, funcs |-> << >>, fn_ret_temp_var |-> << >>,
     loop_var_stack |-> << >>, optimize_level |-> optimize_level,
     debug |-> debug, status |-> "new", ghost |-> {}, ghost_loops |-> << >>,
     strs |-> << >>]

\* IR::add_instructions, next_inst_id, get_inst_by_id, add_func; jump_label
\* and set_jump_label of an instruction.  Instructions are numbered from 0.
add_instructions(b, inst) == [b EXCEPT !.instructions = Append(@, inst)]
next_inst_id(b) == Len(b.instructions)
get_inst_by_id(b, id) == b.instructions[id + 1]
jump_label(inst) == inst.label
set_jump_label(b, id, label) == [b EXCEPT !.instructions[id + 1].label = label]
add_func(b, name) == [b EXCEPT !.funcs = Append(@, [name |-> name, first |-> next_inst_id(b)])]
\* IR::add_ro_local_str: the string is added to the read-only data and its
\* label is returned.
add_ro_local_str(b, str) == [b |-> [b EXCEPT !.strs = Append(@, str)],
                             operand |-> OpRoLabel(Len(b.strs))]

\* A ghost note: the jump at idx is meant to land on target.
Note(idx, role, target, more) ==
    [idx |-> idx, role |-> role, target |-> target, more |-> more]
note(b, idx, role, target, more) ==
    [b EXCEPT !.ghost = @ \cup {Note(idx, role, target, more)}]

\* A visitor's return: the builder after it and the Operand (when Ok).
R(b, operand) == [b |-> b, operand |-> operand]
fail(b, status) == R([b EXCEPT !.status = status], OpUnit)

\* IRBuilder::gen_temp_variable
IRBuilder_gen_temp_variable(b, type) ==
    [b |-> [b EXCEPT !.scopes[b.cur_scope] = gen_temp_variable(@, b.cur_scope, type)],
     place |-> PlaceLocal(temp_local_var(b.scopes[b.cur_scope].temp_count, b.cur_scope))]

\* The walk of a back-patch chain: `while link != 0 { inst = get_inst_by_id(link);
\* link = inst.jump_label(); inst.set_jump_label(target) }`
RECURSIVE back_patch(_, _, _)
back_patch(b, link, target) ==
    IF link # 0
    THEN back_patch(set_jump_label(b, link, target), jump_label(get_inst_by_id(b, link)), target)
    ELSE b

\* A lit that emits the LoadData for a temporary too.
lit_loads_temp(b, operand, d) == R(add_instructions(b, IRLoadData(d, operand)), operand)

\* IRBuilder::lit
lit(b, operand, d) ==
    IF ~is_temp(d) THEN R(add_instructions(b, IRLoadData(d, operand)), operand)
    ELSE R(b, operand)

\* IRBuilder::visit_lit_num_expr (a literal of type I or I32)
visit_lit_num_expr(b, e, dest) ==
    IF dest # NoPlace
    THEN IF DecimalValue(e.value) > I32Max THEN fail(b, "err: parse")
         ELSE lit(b, OpI32(DecimalValue(e.value)), dest)
    ELSE R(b, OpUnit)

\* IRBuilder::visit_lit_bool
visit_lit_bool(b, e, dest) ==
    IF dest # NoPlace THEN lit(b, OpBool(e.value), dest) ELSE R(b, OpUnit)

\* IRBuilder::visit_lit_char
visit_lit_char(b, e, dest) ==
    IF dest # NoPlace THEN lit(b, OpChar(e.value), dest) ELSE R(b, OpUnit)

\* IRBuilder::visit_lit_str: the dest is not used
visit_lit_str(b, e, dest) ==
    LET added(a) == R(a.b, a.operand) IN added(add_ro_local_str(b, e.value))

\* IRBuilder::gen_variable: [ok, place]; find_variable(ident).unwrap().  Not
\* ok stands for the panic of the unwrap or of find_variable's unreachable!().
gen_variable(b, ident, var_kind) ==
    LET unwrap(f) ==
            IF f.found THEN [ok |-> TRUE, place |-> PlaceVariable(ident, f.scope, var_kind)]
            ELSE [ok |-> FALSE, place |-> NoPlace]
    IN  unwrap(find_variable(b.scopes, b.cur_scope, IdentName(ident)))

\* IRBuilder::visit_path_expr
visit_path_expr(b, path_expr, dest) ==
    LET ident == path_expr.ident
        load(operand) ==
            IF dest # NoPlace /\ ~is_temp(dest)
            THEN R(add_instructions(b, IRLoadData(dest, operand)), operand)
            ELSE R(b, operand)
        found(f) ==
            IF f.panic THEN fail(b, "panic: unreachable")
            ELSE IF f.found
            THEN load(OpPlace(PlaceVariable(
                     ident, f.scope,
                     b.scopes[f.scope].variables[IdentName(ident)][f.idx + 1].kind)))
            ELSE IF find_fn(b.scopes, b.cur_scope, ident) THEN R(b, OpFnLabel(ident))
            ELSE fail(b, "err: ident not found")
    IN  found(find_variable(b.scopes, b.cur_scope, IdentName(ident)))

\* A bin_op that gives the instruction the operands in the other order.
bin_op_swapped(b, lhs, rhs, op, ir_type, dest) ==
    R(add_instructions(b, IRBinOp(op, ir_type, dest, rhs, lhs)),
      [kind |-> "Place", val |-> dest])

\* IRBuilder::bin_op
bin_op(b, lhs, rhs, op, ir_type, dest) ==
    R(add_instructions(b, IRBinOp(op, ir_type, dest, lhs, rhs)),
      [kind |-> "Place", val |-> dest])

\* The comparison a condition `l op r` is lowered to in visit_if_expr: the
\* jump kind and whether gen_jump_cond_reverse (operands swapped) emits it.
if_cond_jump_le_forward(op) ==
    CASE op = "Ne" -> [jump |-> "JEq", reverse |-> FALSE]
      [] op = "EqEq" -> [jump |-> "JNe", reverse |-> FALSE]
      [] op = "Le" -> [jump |-> "JLt", reverse |-> FALSE]
      [] op = "Lt" -> [jump |-> "JGe", reverse |-> FALSE]
      [] op = "Gt" -> [jump |-> "JGe", reverse |-> TRUE]
      [] op = "Ge" -> [jump |-> "JLt", reverse |-> FALSE]

if_cond_jump(op) ==
    CASE op = "Ne" -> [jump |-> "JEq", reverse |-> FALSE]
      [] op = "EqEq" -> [jump |-> "JNe", reverse |-> FALSE]
      [] op = "Le" -> [jump |-> "JLt", reverse |-> TRUE]
      [] op = "Lt" -> [jump |-> "JGe", reverse |-> FALSE]
      [] op = "Gt" -> [jump |-> "JGe", reverse |-> TRUE]
      [] op = "Ge" -> [jump |-> "JLt", reverse |-> FALSE]

\* The same table in visit_while_expr.
while_cond_jump(op) ==
    CASE op = "Ne" -> [jump |-> "JEq", reverse |-> FALSE]
      [] op = "EqEq" -> [jump |-> "JNe", reverse |-> FALSE]
      [] op = "Le" -> [jump |-> "JLt", reverse |-> TRUE]
      [] op = "Lt" -> [jump |-> "JGe", reverse |-> FALSE]
      [] op = "Gt" -> [jump |-> "JGe", reverse |-> TRUE]
      [] op = "Ge" -> [jump |-> "JLt", reverse |-> FALSE]

-----------------------------------------------------------------------------
(* IRBuilder: the visitors.  Each takes the builder b (its IR, its scope    *)
(* stack and its loop stack) and returns it as the visitor leaves it; after *)
(* an Err or a panic (status other than "ok") nothing more is done.         *)

RECURSIVE visit_expr(_, _, _)
RECURSIVE visit_stmts(_, _, _)
RECURSIVE visit_block_expr(_, _, _)
RECURSIVE visit_bin_op_expr(_, _, _)
RECURSIVE gen_jump_cond(_, _, _, _)
RECURSIVE gen_jump_cond_reverse(_, _, _, _)
RECURSIVE jump_if_not_cond(_, _, _, _)
RECURSIVE visit_if_conditions(_, _, _, _, _, _)
RECURSIVE visit_if_expr(_, _, _)
RECURSIVE visit_loop_block(_, _, _)
RECURSIVE visit_while_expr(_, _)
RECURSIVE visit_loop_expr(_, _, _)
RECURSIVE visit_break_expr(_, _, _)
RECURSIVE visit_let_stmt(_, _)
RECURSIVE visit_item_fn(_, _)
RECURSIVE visit_call_params(_, _, _, _)
RECURSIVE visit_call_expr(_, _, _)
RECURSIVE visit_return_expr(_, _, _)
RECURSIVE visit_assign_expr(_, _)

\* visit_stmt, `debug_assert!(operand.is_unit_or_never())` on what the
\* expression statement returned
visit_stmt_expr(b, r) ==
    IF r.b.status # "ok" THEN r.b
    ELSE IF b.debug /\ ~is_unit_or_never(r.operand)
    THEN fail(r.b, "panic: debug_assert").b
    ELSE r.b

\* IRBuilder::visit_stmt
visit_stmt(b, stmt) ==
    CASE stmt.kind = "Semi" -> b
      [] stmt.kind = "Item" -> visit_item_fn(b, stmt.item)
      [] stmt.kind = "Let" -> visit_let_stmt(b, stmt)
      [] stmt.kind = "ExprStmt" -> visit_stmt_expr(b, visit_expr(b, stmt.expr, NoPlace))
      [] OTHER -> fail(b, "panic: unimplemented").b

\* `for stmt in block_expr.stmts.iter_mut() { self.visit_stmt(stmt)?; }`
visit_stmts(b, stmts, i) ==
    IF i > Len(stmts) \/ b.status # "ok" THEN b
    ELSE visit_stmts(visit_stmt(b, stmts[i]), stmts, i + 1)

\* IRBuilder::visit_expr
visit_expr(b, e, dest) ==
    CASE e.kind = "Path" -> visit_path_expr(b, e, dest)
      [] e.kind = "LitNum" -> visit_lit_num_expr(b, e, dest)
      [] e.kind = "LitBool" -> visit_lit_bool(b, e, dest)
      [] e.kind = "LitChar" -> visit_lit_char(b, e, dest)
      [] e.kind = "LitStr" -> visit_lit_str(b, e, dest)
      [] e.kind = "Assign" -> visit_assign_expr(b, e)
      [] e.kind = "Call" -> visit_call_expr(b, e, dest)
      [] e.kind = "Return" -> visit_return_expr(b, e, dest)
      [] e.kind = "Block" -> visit_block_expr(b, e, dest)
      [] e.kind = "BinOp" -> visit_bin_op_expr(b, e, dest)
      [] e.kind = "While" -> visit_while_expr(b, e)
      [] e.kind = "Loop" -> visit_loop_expr(b, e, dest)
      [] e.kind = "If" -> visit_if_expr(b, e, dest)
      [] e.kind = "Break" -> visit_break_expr(b, e, dest)
      [] OTHER -> fail(b, "panic: unimplemented")

\* visit_let_stmt, `self.visit_expr(rhs, Some(place))` with the place g that
\* gen_variable gave
visit_let_stmt_rhs(b, let_stmt, g) ==
    IF ~g.ok THEN fail(b, "panic: gen_variable").b
    ELSE visit_expr(b, let_stmt.rhs, g.place).b

\* IRBuilder::visit_let_stmt (the pattern is an identifier)
visit_let_stmt(b, let_stmt) ==
    IF let_stmt.rhs = NoExpr THEN b
    ELSE visit_let_stmt_rhs(b, let_stmt,
                            gen_variable(b, let_stmt.ident,
                                         IF let_stmt.is_mut THEN "LocalMut" ELSE "Local"))

\* `for e in call_expr.call_params.iter_mut()`: each argument is lowered
\* into a fresh temporary t; [b, params], i counts from 1.
visit_call_param(call_params, i, params, r) ==
    visit_call_params(r.b, call_params, i + 1, Append(params, r.operand))

visit_call_param_temp(call_params, i, params, t) ==
    visit_call_param(call_params, i, params, visit_expr(t.b, call_params[i], t.place))

visit_call_params(b, call_params, i, params) ==
    IF i > Len(call_params) \/ b.status # "ok" THEN [b |-> b, params |-> params]
    ELSE visit_call_param_temp(call_params, i, params,
                               IRBuilder_gen_temp_variable(b, type_info(call_params[i])))

\* A visit_call_expr_dest that loads the return place only for a named dest.
visit_call_expr_dest_named_only(b, dest) ==
    IF dest # NoPlace /\ ~is_temp(dest)
    THEN R(add_instructions(b, IRLoadData(dest, OpFnRetPlace)), OpPlace(dest))
    ELSE R(b, OpUnit)

\* visit_call_expr, `match dest`, after the Call
visit_call_expr_dest(b, dest) ==
    IF dest # NoPlace
    THEN R(add_instructions(b, IRLoadData(dest, OpFnRetPlace)), OpPlace(dest))
    ELSE R(b, OpUnit)

\* visit_call_expr, the Call instruction after the arguments ps
visit_call_expr_call(dest, callee, ps) ==
    IF ps.b.status # "ok" THEN R(ps.b, OpUnit)
    ELSE visit_call_expr_dest(add_instructions(ps.b, IRCall(callee.operand, ps.params)), dest)

\* visit_call_expr, the arguments after the callee
visit_call_expr_params(call_expr, dest, callee) ==
    IF callee.b.status # "ok" THEN callee
    ELSE visit_call_expr_call(dest, callee,
                              visit_call_params(callee.b, call_expr.call_params, 1, << >>))

\* visit_call_expr, the callee lowered into the temporary t
visit_call_expr_callee(call_expr, dest, t) ==
    visit_call_expr_params(call_expr, dest, visit_expr(t.b, call_expr.expr, t.place))

\* IRBuilder::visit_call_expr
visit_call_expr(b, call_expr, dest) ==
    visit_call_expr_callee(call_expr, dest,
                           IRBuilder_gen_temp_variable(b, type_info(call_expr)))

\* visit_return_expr, after the Ret
visit_return_expr_dest(b, dest) ==
    IF b.status # "ok" THEN R(b, OpUnit)
    ELSE IF dest # NoPlace
    THEN R(add_instructions(b, IRLoadData(dest, OpNever)), OpPlace(dest))
    ELSE R(b, OpNever)

\* visit_return_expr, the Ret of the operand r
visit_return_expr_ret(r) ==
    IF r.b.status # "ok" THEN r.b ELSE add_instructions(r.b, IRRet(r.operand))

\* IRBuilder::visit_return_expr
visit_return_expr(b, return_expr, dest) ==
    visit_return_expr_dest(
        IF return_expr.expr # NoExpr
        THEN IF b.fn_ret_temp_var = << >> THEN fail(b, "panic: unwrap").b
             ELSE visit_return_expr_ret(
                      visit_expr(b, return_expr.expr,
                                 b.fn_ret_temp_var[Len(b.fn_ret_temp_var)]))
        ELSE add_instructions(b, IRRet(OpUnit)),
        dest)

\* visit_assign_expr, `=`: the right-hand side was lowered into the place
visit_assign_expr_eq(r) == R(r.b, OpUnit)

\* visit_assign_expr, a compound assignment: the BinOp on the place p
visit_assign_expr_op(assign_expr, p, rhs) ==
    IF rhs.b.status # "ok" THEN rhs
    ELSE R(add_instructions(rhs.b,
               IRBinOp(assign_expr.assign_op, type_info(assign_expr.lhs),
                       p, OpPlace(p), rhs.operand)),
           OpUnit)

\* visit_assign_expr, a compound assignment: the right-hand side lowered
\* into the temporary t
visit_assign_expr_rhs(assign_expr, p, t) ==
    visit_assign_expr_op(assign_expr, p, visit_expr(t.b, assign_expr.rhs, t.place))

\* visit_assign_expr, after visit_lhs_expr
visit_assign_expr_lhs(assign_expr, lhs) ==
    IF lhs.b.status # "ok" THEN lhs
    ELSE IF lhs.operand.kind # "Place" THEN fail(lhs.b, "panic: unimplemented")
    ELSE IF assign_expr.assign_op = "Eq"
    THEN visit_assign_expr_eq(visit_expr(lhs.b, assign_expr.rhs, lhs.operand.val))
    ELSE visit_assign_expr_rhs(assign_expr, lhs.operand.val,
                               IRBuilder_gen_temp_variable(lhs.b, type_info(assign_expr.lhs)))

\* IRBuilder::visit_assign_expr (visit_lhs_expr on a path; the type of the
\* left-hand side has an IRType)
visit_assign_expr(b, assign_expr) ==
    visit_assign_expr_lhs(assign_expr,
                          IF assign_expr.lhs.kind = "Path"
                          THEN visit_path_expr(b, assign_expr.lhs, NoPlace)
                          ELSE fail(b, "panic: todo"))

\* The builder with the scope stack as enter_scope or exit_scope left it.
with_scope_stack(b, st) ==
    [b EXCEPT !.scopes = st.scopes, !.cur_scope = st.cur_scope,
              !.scope_stack = st.scope_stack]

\* visit_block_expr, after the last expression: the unit check, exit_scope
visit_block_expr_exit(block_expr, dest, r) ==
    IF r.b.status # "ok" THEN r
    ELSE IF /\ block_expr.last_expr # NoExpr
            /\ dest = NoPlace
            /\ ~is_unit_or_never(r.operand)
    THEN fail(r.b, "err: expected unit")
    ELSE R(with_scope_stack(r.b, exit_scope(r.b.scopes, r.b.cur_scope, r.b.scope_stack)),
           r.operand)

\* visit_block_expr, the last expression after the statements
visit_block_expr_last(block_expr, dest, b) ==
    IF b.status # "ok" THEN R(b, OpUnit)
    ELSE visit_block_expr_exit(block_expr, dest,
                               IF block_expr.last_expr # NoExpr
                               THEN visit_expr(b, block_expr.last_expr, dest)
                               ELSE R(b, OpUnit))

\* IRBuilder::visit_block_expr: enter_scope, the statements, the last
\* expression, exit_scope
visit_block_expr(b, block_expr, dest) ==
    visit_block_expr_last(
        block_expr, dest,
        visit_stmts(with_scope_stack(b, enter_scope(b.scopes, b.cur_scope, b.scope_stack,
                                                    block_expr.scope_id)),
                    block_expr.stmts, 1))

\* visit_bin_op_expr, after bin_op_may_constant_fold
visit_bin_op_expr_fold(e, dest, lhs, rhs, fold_option) ==
    IF ~fold_option.ok THEN fail(rhs.b, fold_option.msg)
    ELSE IF dest # NoPlace
    THEN IF rhs.b.optimize_level = "Zero"
         THEN bin_op(rhs.b, lhs.operand, rhs.operand, e.bin_op, type_info(e), dest)
         ELSE IF fold_option.val.some
         THEN lit(rhs.b, fold_option.val.val, dest)
         ELSE bin_op(rhs.b, lhs.operand, rhs.operand, e.bin_op, type_info(e), dest)
    ELSE R(rhs.b, OpUnit)

\* visit_bin_op_expr, after the right operand
visit_bin_op_expr_operands(e, dest, lhs, rhs) ==
    IF rhs.b.status # "ok" THEN rhs
    ELSE visit_bin_op_expr_fold(e, dest, lhs, rhs,
                                bin_op_may_constant_fold(e.bin_op, lhs.operand, rhs.operand))

\* visit_bin_op_expr, the right operand lowered into the temporary t2
visit_bin_op_expr_rhs(e, dest, lhs, t2) ==
    visit_bin_op_expr_operands(e, dest, lhs, visit_expr(t2.b, e.rhs, t2.place))

\* visit_bin_op_expr, after the left operand
visit_bin_op_expr_after_lhs(e, dest, lhs) ==
    IF lhs.b.status # "ok" THEN lhs
    ELSE visit_bin_op_expr_rhs(e, dest, lhs,
                               IRBuilder_gen_temp_variable(lhs.b, type_info(e.rhs)))

\* visit_bin_op_expr, the left operand lowered into the temporary t1
visit_bin_op_expr_lhs(e, dest, t1) ==
    visit_bin_op_expr_after_lhs(e, dest, visit_expr(t1.b, e.lhs, t1.place))

\* IRBuilder::visit_bin_op_expr
visit_bin_op_expr(b, e, dest) ==
    visit_bin_op_expr_lhs(e, dest, IRBuilder_gen_temp_variable(b, type_info(e.lhs)))

\* gen_jump_cond and gen_jump_cond_reverse, the JumpIfCond on the operands
\* src1 and src2: [b, link] with link the new next_back_patch_link
jump_if_cond(b, jump, src1, src2, link) ==
    IF b.status # "ok" THEN [b |-> b, link |-> link]
    ELSE [b |-> add_instructions(b, IRJumpIfCond(jump, src1, src2, link)),
          link |-> next_inst_id(b)]

gen_jump_cond_emit(jump, link, lhs, rhs) ==
    jump_if_cond(rhs.b, jump, lhs.operand, rhs.operand, link)

gen_jump_cond_rhs(e, jump, link, lhs, t2) ==
    gen_jump_cond_emit(jump, link, lhs, visit_expr(t2.b, e.rhs, t2.place))

gen_jump_cond_after_lhs(e, jump, link, lhs) ==
    IF lhs.b.status # "ok" THEN [b |-> lhs.b, link |-> link]
    ELSE gen_jump_cond_rhs(e, jump, link, lhs,
                           IRBuilder_gen_temp_variable(lhs.b, type_info(e)))

gen_jump_cond_lhs(e, jump, link, t1) ==
    gen_jump_cond_after_lhs(e, jump, link, visit_expr(t1.b, e.lhs, t1.place))

\* IRBuilder::gen_jump_cond: [b, link] with link the new next_back_patch_link
gen_jump_cond(b, e, jump, link) ==
    gen_jump_cond_lhs(e, jump, link, IRBuilder_gen_temp_variable(b, type_info(e)))

gen_jump_cond_reverse_emit(jump, link, lhs, rhs) ==
    jump_if_cond(rhs.b, jump, rhs.operand, lhs.operand, link)

gen_jump_cond_reverse_rhs(e, jump, link, lhs, t2) ==
    gen_jump_cond_reverse_emit(jump, link, lhs, visit_expr(t2.b, e.rhs, t2.place))

gen_jump_cond_reverse_after_lhs(e, jump, link, lhs) ==
    IF lhs.b.status # "ok" THEN [b |-> lhs.b, link |-> link]
    ELSE gen_jump_cond_reverse_rhs(e, jump, link, lhs,
                                   IRBuilder_gen_temp_variable(lhs.b, type_info(e)))

gen_jump_cond_reverse_lhs(e, jump, link, t1) ==
    gen_jump_cond_reverse_after_lhs(e, jump, link, visit_expr(t1.b, e.lhs, t1.place))

\* IRBuilder::gen_jump_cond_reverse: the operands swapped
gen_jump_cond_reverse(b, e, jump, link) ==
    gen_jump_cond_reverse_lhs(e, jump, link, IRBuilder_gen_temp_variable(b, type_info(e)))

\* The JumpIfNot on the operand the condition was lowered to.
jump_if_not_cond_emit(target, link, r) ==
    IF r.b.status # "ok" THEN [b |-> r.b, link |-> link]
    ELSE [b |-> add_instructions(r.b, IRJumpIfNot(r.operand, target)),
          link |-> next_inst_id(r.b)]

jump_if_not_cond_temp(e, target, link, t) ==
    jump_if_not_cond_emit(target, link,
                          IF e.kind = "BinOp" THEN visit_bin_op_expr(t.b, e, t.place)
                          ELSE visit_expr(t.b, e, t.place))

\* The arms `_ =>` and `e =>` of the match on a condition: the condition is
\* lowered into a temporary and a JumpIfNot on it is emitted, carrying
\* target (the chain link in visit_if_expr, 0 in visit_while_expr).
jump_if_not_cond(b, e, target, link) ==
    jump_if_not_cond_temp(e, target, link, IRBuilder_gen_temp_variable(b, type_info(e)))

\* No fused jump: the condition is not a comparison.
NoJump == [jump |-> "none", reverse |-> FALSE]

\* The match on a condition in visit_if_expr and visit_while_expr, given the
\* table of fused jumps; target is what a JumpIfNot carries.
cond_jump(b, cond, table, target, link) ==
    IF cond.kind = "BinOp" /\ cond.bin_op \in {"AndAnd", "OrOr"}
    THEN [b |-> fail(b, "panic: todo").b, link |-> link]
    ELSE IF cond.kind = "BinOp" /\ cond.bin_op \in CmpOperators
    THEN IF table.reverse
         THEN gen_jump_cond_reverse(b, cond, table.jump, link)
         ELSE gen_jump_cond(b, cond, table.jump, link)
    ELSE jump_if_not_cond(b, cond, target, link)

\* visit_if_expr's loop, the next condition after the block of the i-th:
\* more says a block follows, and then the block's trailing Jump was emitted.
visit_if_branch_next(if_expr, dest, i, ends, more, j, b) ==
    visit_if_conditions(note(b, j.link, "if_next", next_inst_id(b), more),
                        if_expr, dest, i + 1,
                        IF more THEN next_inst_id(b) - 1 ELSE j.link,
                        IF more THEN ends \cup {next_inst_id(b) - 1} ELSE ends)

\* visit_if_expr's loop, after the block of the i-th condition
visit_if_branch_block(if_expr, dest, i, ends, more, j, r) ==
    IF r.b.status # "ok" THEN [b |-> r.b, link |-> j.link, ends |-> ends]
    ELSE visit_if_branch_next(if_expr, dest, i, ends, more, j,
                              IF more THEN add_instructions(r.b, IRJump(j.link)) ELSE r.b)

\* visit_if_expr's loop, after the jump j of the i-th condition
visit_if_branch(if_expr, dest, i, ends, j) ==
    IF j.b.status # "ok" THEN [b |-> j.b, link |-> j.link, ends |-> ends]
    ELSE visit_if_branch_block(if_expr, dest, i, ends, i # Len(if_expr.blocks), j,
                               visit_block_expr(j.b, if_expr.blocks[i], dest))

\* The loop over (i, cond) of visit_if_expr with the visit_block! macro:
\* [b, link, ends]; i counts from 1; ends is a ghost, the trailing Jumps.
visit_if_conditions(b, if_expr, dest, i, link, ends) ==
    IF i > Len(if_expr.conditions) THEN [b |-> b, link |-> link, ends |-> ends]
    ELSE visit_if_branch(if_expr, dest, i, ends,
                         cond_jump(b, if_expr.conditions[i],
                                   IF if_expr.conditions[i].kind = "BinOp"
                                      /\ if_expr.conditions[i].bin_op \in CmpOperators
                                   THEN if_cond_jump(if_expr.conditions[i].bin_op)
                                   ELSE NoJump,
                                   link, link))

\* visit_if_expr, the back-patch of the chain c.link to next_idx
visit_if_expr_patch(c, b, next_idx) ==
    [back_patch(b, c.link, next_idx) EXCEPT !.ghost =
        @ \cup {Note(j, "if_end", next_idx, FALSE) : j \in c.ends}]

\* visit_if_expr, after the else block
visit_if_expr_end(dest, c, r) ==
    IF r.b.status # "ok" THEN R(r.b, OpUnit)
    ELSE R(visit_if_expr_patch(c, r.b, next_inst_id(r.b)),
           IF dest # NoPlace THEN OpPlace(dest) ELSE OpUnit)

\* visit_if_expr, the else block after the conditions
visit_if_expr_else(if_expr, dest, c) ==
    IF c.b.status # "ok" THEN R(c.b, OpUnit)
    ELSE visit_if_expr_end(dest, c,
                           IF Len(if_expr.blocks) = Len(if_expr.conditions) + 1
                           THEN visit_block_expr(c.b, if_expr.blocks[Len(if_expr.blocks)], dest)
                           ELSE R(c.b, OpUnit))

\* IRBuilder::visit_if_expr
visit_if_expr(b, if_expr, dest) ==
    visit_if_expr_else(if_expr, dest, visit_if_conditions(b, if_expr, dest, 1, 0, {}))

\* visit_loop_block, the ghost notes of the n-th open loop, which is closed
visit_loop_block_noted(b, n, next_id) ==
    [b EXCEPT !.ghost = @ \cup {Note(j, "loop_exit", next_id, FALSE) : j \in b.ghost_loops[n]},
              !.ghost_loops = SubSeq(@, 1, n - 1)]

\* visit_loop_block, the back-patch of the loop's chain
visit_loop_block_patch(b, link, n) ==
    visit_loop_block_noted(back_patch(b, link, next_inst_id(b)), n, next_inst_id(b))

\* visit_loop_block, loop_var_stack.pop() after the back-edge
visit_loop_block_pop(b) ==
    visit_loop_block_patch([b EXCEPT !.loop_var_stack = SubSeq(@, 1, Len(@) - 1)],
                           b.loop_var_stack[Len(b.loop_var_stack)].link,
                           Len(b.loop_var_stack))

\* visit_loop_block, after the block
visit_loop_block_jump(loop_start_id, r) ==
    IF r.b.status # "ok" THEN r.b
    ELSE IF ~is_unit_or_never(r.operand) THEN fail(r.b, "panic: assert").b
    ELSE visit_loop_block_pop(note(add_instructions(r.b, IRJump(loop_start_id)),
                                   next_inst_id(r.b), "loop_back", loop_start_id, FALSE))

\* IRBuilder::visit_loop_block
visit_loop_block(b, loop_block, loop_start_id) ==
    visit_loop_block_jump(loop_start_id, visit_block_expr(b, loop_block, NoPlace))

\* visit_while_expr, the loop block after the condition's jump j
visit_while_expr_block(while_expr, loop_start_id, j) ==
    IF j.b.status # "ok" THEN R(j.b, OpUnit)
    ELSE R(visit_loop_block(
               [j.b EXCEPT
                   !.loop_var_stack = Append(@, [place |-> NoPlace, link |-> j.link]),
                   !.ghost_loops = Append(@, {j.link})],
               while_expr.block, loop_start_id),
           OpUnit)

\* IRBuilder::visit_while_expr
visit_while_expr(b, while_expr) ==
    visit_while_expr_block(while_expr, next_inst_id(b),
                           cond_jump(b, while_expr.cond,
                                     IF while_expr.cond.kind = "BinOp"
                                        /\ while_expr.cond.bin_op \in CmpOperators
                                     THEN while_cond_jump(while_expr.cond.bin_op)
                                     ELSE NoJump,
                                     0, 0))

\* visit_loop_expr, what the loop yields
visit_loop_expr_end(dest, b) ==
    IF b.status # "ok" THEN R(b, OpUnit)
    ELSE R(b, IF dest # NoPlace THEN OpPlace(dest) ELSE OpNever)

\* IRBuilder::visit_loop_expr
visit_loop_expr(b, loop_expr, dest) ==
    visit_loop_expr_end(dest,
                        visit_loop_block(
                            [b EXCEPT !.loop_var_stack = Append(@, [place |-> dest, link |-> 0]),
                                      !.ghost_loops = Append(@, {})],
                            loop_expr.expr, next_inst_id(b)))

\* visit_break_expr, the load of the value into the loop's place
visit_break_expr_load(break_place, rhs) ==
    IF rhs.b.status # "ok" THEN rhs.b
    ELSE add_instructions(rhs.b, IRLoadData(break_place, rhs.operand))

\* visit_break_expr, the value lowered into the temporary t
visit_break_expr_value(break_expr, break_place, t) ==
    visit_break_expr_load(break_place, visit_expr(t.b, break_expr.expr, t.place))

\* visit_break_expr, the Jump joins the chain of the innermost loop
visit_break_expr_link(b, n, jump_id) ==
    [add_instructions(b, IRJump(b.loop_var_stack[n].link))
        EXCEPT !.loop_var_stack[n].link = jump_id,
               !.ghost_loops[n] = @ \cup {jump_id}]

\* visit_break_expr, what the break yields
visit_break_expr_dest(b, dest) ==
    IF dest # NoPlace
    THEN R(add_instructions(b, IRLoadData(dest, OpNever)), OpPlace(dest))
    ELSE R(b, OpNever)

\* visit_break_expr, after the value
visit_break_expr_jump(b, dest) ==
    IF b.status # "ok" THEN R(b, OpUnit)
    ELSE visit_break_expr_dest(
             visit_break_expr_link(b, Len(b.loop_var_stack), next_inst_id(b)), dest)

\* visit_break_expr with the place of the innermost loop
visit_break_expr_place(b, break_expr, dest, break_place) ==
    visit_break_expr_jump(
        IF break_expr.expr # NoExpr
        THEN IF break_place # NoPlace
             THEN visit_break_expr_value(
                      break_expr, break_place,
                      IRBuilder_gen_temp_variable(b, type_info(break_expr.expr)))
             ELSE fail(b, "panic: unreachable").b
        ELSE IF break_place # NoPlace THEN fail(b, "panic: unreachable").b
        ELSE b,
        dest)

\* IRBuilder::visit_break_expr
visit_break_expr(b, break_expr, dest) ==
    IF b.loop_var_stack = << >> THEN fail(b, "panic: unwrap")
    ELSE visit_break_expr_place(b, break_expr, dest,
                                b.loop_var_stack[Len(b.loop_var_stack)].place)

\* A last_stmt_is_return that is never true.
last_stmt_is_never_return(block) == FALSE

\* BlockExpr::last_stmt_is_return
last_stmt_is_return(block) ==
    /\ block.last_expr = NoExpr
    /\ block.stmts # << >>
    /\ block.stmts[Len(block.stmts)].kind = "ExprStmt"
    /\ block.stmts[Len(block.stmts)].expr.kind = "Return"

\* visit_item_fn, the Ret after the block
visit_item_fn_ret(item_fn, r) ==
    IF item_fn.fn_block.last_expr = NoExpr /\ item_fn.fn_block.stmts = << >>
    THEN add_instructions(r.b, IRRet(OpUnit))
    ELSE IF ~last_stmt_is_return(item_fn.fn_block)
    THEN add_instructions(r.b, IRRet(r.operand))
    ELSE r.b

\* visit_item_fn, fn_ret_temp_var.pop()
visit_item_fn_pop(b) == [b EXCEPT !.fn_ret_temp_var = SubSeq(@, 1, Len(@) - 1)]

\* visit_item_fn, after the block
visit_item_fn_end(item_fn, r) ==
    IF r.b.status # "ok" THEN r.b ELSE visit_item_fn_pop(visit_item_fn_ret(item_fn, r))

\* visit_item_fn, the block lowered into the return temporary t
visit_item_fn_block(item_fn, t) ==
    visit_item_fn_end(item_fn,
                      visit_block_expr([t.b EXCEPT !.fn_ret_temp_var = Append(@, t.place)],
                                       item_fn.fn_block, t.place))

\* IRBuilder::visit_item_fn
visit_item_fn(b, item_fn) ==
    IF ~find_fn(b.scopes, b.cur_scope, item_fn.name) THEN fail(b, "panic: assert_eq").b
    ELSE visit_item_fn_block(item_fn,
                             IRBuilder_gen_temp_variable(add_func(b, item_fn.name),
                                                         type_info(item_fn.fn_block)))

\* `for item in file.items.iter_mut() { self.visit_item(item)?; }`
RECURSIVE visit_items(_, _, _)
visit_items(b, items, i) ==
    IF i > Len(items) \/ b.status # "ok" THEN b
    ELSE visit_items(visit_item_fn(b, items[i]), items, i + 1)

\* IRBuilder::visit_file, after ScopeStack::enter_file
visit_file(b, file) == visit_items([b EXCEPT !.cur_scope = FileScope], file.items, 1)

\* IRBuilder::generate_ir
generate_ir(b, ast) == visit_file([b EXCEPT !.status = "ok"], ast)

-----------------------------------------------------------------------------
(* SymbolResolver: the walk that precedes IRBuilder::generate_ir.  It       *)
(* installs the fn items of a block in the block's types before the         *)
(* statements, gives each statement a fresh cur_stmt_id, resolves every     *)
(* path and introduces the binding of a let after its right-hand side.      *)

\* SymbolResolver::new with the scopes of the parsed file.
NewResolver(scs) ==
    [scopes |-> scs, cur_scope |-> NoScope, scope_stack |-> << >>,
     status |-> "ok", ident |-> "", str_constants |-> << >>]

\* RccError("identifier `<ident>` not found")
not_found(rs, ident) == [rs EXCEPT !.status = "err: identifier not found", !.ident = ident]

\* The names of the fn items among the statements of a block.
RECURSIVE ItemNames(_)
ItemNames(stmts) ==
    IF stmts = << >> THEN {}
    ELSE (IF Head(stmts).kind = "Item" THEN {Head(stmts).item.name} ELSE {})
            \cup ItemNames(Tail(stmts))

\* The parameters of a fn are variables of its block.
RECURSIVE add_params(_, _, _)
add_params(sc, params, i) ==
    IF i > Len(params) THEN sc
    ELSE add_params(add_variable(sc, IdentName(params[i]), "Local", "I32"), params, i + 1)

\* A path: a variable, else a function, else the error.
resolve_path_expr(rs, path_expr) ==
    LET found(f) ==
            IF f.panic THEN [rs EXCEPT !.status = "panic: unreachable"]
            ELSE IF f.found \/ find_fn(rs.scopes, rs.cur_scope, path_expr.ident) THEN rs
            ELSE not_found(rs, path_expr.ident)
    IN  found(find_variable(rs.scopes, rs.cur_scope, IdentName(path_expr.ident)))

\* The left-hand side of an assignment resolves to a LocalMut.
resolve_lhs_expr(rs, path_expr) ==
    LET found(f) ==
            IF f.panic THEN [rs EXCEPT !.status = "panic: unreachable"]
            ELSE IF ~f.found THEN not_found(rs, path_expr.ident)
            ELSE IF rs.scopes[f.scope].variables[IdentName(path_expr.ident)][f.idx + 1].kind
                        # "LocalMut"
            THEN [rs EXCEPT !.status = "err: not mutable", !.ident = path_expr.ident]
            ELSE rs
    IN  found(find_variable(rs.scopes, rs.cur_scope, IdentName(path_expr.ident)))

RECURSIVE resolve_expr(_, _)
RECURSIVE resolve_exprs(_, _, _)
RECURSIVE resolve_branches(_, _, _)
RECURSIVE resolve_stmts(_, _, _)
RECURSIVE resolve_block(_, _, _)

\* A fn item: its block, with its parameters.
resolve_item_fn(rs, item_fn) == resolve_block(rs, item_fn.fn_block, FnParams(item_fn))

\* A statement, after it has been given its cur_stmt_id.
resolve_stmt(rs, stmt) ==
    CASE stmt.kind = "Semi" -> rs
      [] stmt.kind = "Item" -> resolve_item_fn(rs, stmt.item)
      [] stmt.kind = "ExprStmt" -> resolve_expr(rs, stmt.expr)
      [] stmt.kind = "Let" ->
            LET bind(r) ==
                    IF r.status # "ok" THEN r
                    ELSE [r EXCEPT !.scopes[r.cur_scope] =
                              add_variable(@, IdentName(stmt.ident),
                                           IF stmt.is_mut THEN "LocalMut" ELSE "Local",
                                           IF stmt.rhs = NoExpr THEN "Unknown"
                                           ELSE type_info(stmt.rhs))]
            IN  bind(IF stmt.rhs = NoExpr THEN rs ELSE resolve_expr(rs, stmt.rhs))

\* The statements of a block from the i-th on; the i-th statement's
\* cur_stmt_id is i.
resolve_stmts(rs, stmts, i) ==
    IF i > Len(stmts) \/ rs.status # "ok" THEN rs
    ELSE resolve_stmts(
             resolve_stmt([rs EXCEPT !.scopes[rs.cur_scope].cur_stmt_id = i], stmts[i]),
             stmts, i + 1)

\* A block: enter its scope, install its fn items, its statements, its
\* trailing expression, exit the scope.
resolve_block(rs, block_expr, params) ==
    LET entered(en) ==
            [rs EXCEPT !.scopes =
                          [en.scopes EXCEPT ![block_expr.scope_id] =
                              add_params([@ EXCEPT !.types = @ \cup ItemNames(block_expr.stmts)],
                                         params, 1)],
                       !.cur_scope = en.cur_scope,
                       !.scope_stack = en.scope_stack]
        exited(r, ex) ==
            [r EXCEPT !.scopes = ex.scopes, !.cur_scope = ex.cur_scope,
                      !.scope_stack = ex.scope_stack]
        after_last(r) ==
            IF r.status # "ok" THEN r
            ELSE exited(r, exit_scope(r.scopes, r.cur_scope, r.scope_stack))
        after_stmts(r) ==
            IF r.status # "ok" \/ block_expr.last_expr = NoExpr THEN after_last(r)
            ELSE after_last(resolve_expr(r, block_expr.last_expr))
    IN  IF rs.status # "ok" THEN rs
        ELSE after_stmts(resolve_stmts(
                 entered(enter_scope(rs.scopes, rs.cur_scope, rs.scope_stack,
                                     block_expr.scope_id)),
                 block_expr.stmts, 1))

\* Expressions in source order.
resolve_exprs(rs, exprs, i) ==
    IF i > Len(exprs) \/ rs.status # "ok" THEN rs
    ELSE resolve_exprs(resolve_expr(rs, exprs[i]), exprs, i + 1)

\* The conditions and blocks of an if, in source order.
resolve_branches(rs, if_expr, i) ==
    IF i > Len(if_expr.blocks) \/ rs.status # "ok" THEN rs
    ELSE resolve_branches(
             resolve_block(IF i <= Len(if_expr.conditions)
                           THEN resolve_expr(rs, if_expr.conditions[i]) ELSE rs,
                           if_expr.blocks[i], << >>),
             if_expr, i + 1)

resolve_expr(rs, e) ==
    IF rs.status # "ok" THEN rs
    ELSE CASE e.kind = "Path" -> resolve_path_expr(rs, e)
           [] e.kind \in {"LitNum", "LitBool", "LitChar"} -> rs
           [] e.kind = "LitStr" -> [rs EXCEPT !.str_constants = Append(@, e.value)]
           [] e.kind = "BinOp" -> resolve_exprs(rs, <<e.lhs, e.rhs>>, 1)
           [] e.kind = "Block" -> resolve_block(rs, e, << >>)
           [] e.kind = "Assign" -> resolve_expr(resolve_lhs_expr(rs, e.lhs), e.rhs)
           [] e.kind = "Call" -> resolve_exprs(rs, <<e.expr>> \o e.call_params, 1)
           [] e.kind = "If" -> resolve_branches(rs, e, 1)
           [] e.kind = "While" -> resolve_block(resolve_expr(rs, e.cond), e.block, << >>)
           [] e.kind = "Loop" -> resolve_block(rs, e.expr, << >>)
           [] e.kind \in {"Break", "Return"} ->
                 IF e.expr = NoExpr THEN rs ELSE resolve_expr(rs, e.expr)

\* The fn items of the file, in order.
RECURSIVE resolve_items(_, _, _)
resolve_items(rs, items, i) ==
    IF i > Len(items) \/ rs.status # "ok" THEN rs
    ELSE resolve_items(resolve_item_fn(rs, items[i]), items, i + 1)

\* SymbolResolver::visit_file, after ScopeStack::enter_file
resolve_file(rs, file) == resolve_items([rs EXCEPT !.cur_scope = FileScope], file.items, 1)

-----------------------------------------------------------------------------
(* SpecIR: IRBuilder::generate_ir on drawn programs `fn main() { ... }` of  *)
(* nested if / else-if / else, while, loop and break                        *)

\* How deep if, while and loop nest, and how many conditions an if has.
MaxNest == 2
MaxBranches == 2

\* The conditions of the drawn programs: one lowered to a JumpIfNot and one
\* to a fused JumpIfCond.
StructConds ==
    {LitBool(TRUE), BinOpExpr("Lt", LitNumExpr(<<1>>), LitNumExpr(<<2>>))}

\* The expressions of nesting depth at most d, inside a loop or not, whose
\* blocks take the scope ids from n on in the order the parser meets them:
\* the set of [e, next], next being the first scope id left unused.  A block
\* holds at most one statement, and at most one block of an if is not empty.
RECURSIVE ExprsAt(_, _, _)
RECURSIVE BlocksAt(_, _, _)
EmptyBlocks(n, count) == [i \in 1 .. count |-> BlockExpr(n + i - 1, << >>, NoExpr)]
BlocksAt(d, in_loop, n) ==
    {[e |-> BlockExpr(n, << >>, NoExpr), next |-> n + 1]}
        \cup {[e |-> BlockExpr(n, <<ExprStmt(s.e)>>, NoExpr), next |-> s.next] :
                 s \in ExprsAt(d, in_loop, n + 1)}
BlockSeqs(d, in_loop, n, count) ==
    {[seq |-> EmptyBlocks(n, count), next |-> n + count]}
        \cup UNION {{[seq |-> EmptyBlocks(n, p - 1) \o <<blk.e>>
                                  \o EmptyBlocks(blk.next, count - p),
                      next |-> blk.next + count - p] :
                        blk \in {x \in BlocksAt(d, in_loop, n + p - 1) : x.e.stmts # << >>}} :
                    p \in 1 .. count}
ExprsAt(d, in_loop, n) ==
    (IF in_loop THEN {[e |-> BreakExpr(NoExpr), next |-> n]} ELSE {})
        \cup
    (IF d = 0 THEN {}
     ELSE UNION {{[e |-> IfExpr(cs, bs.seq), next |-> bs.next] :
                     cs \in [1 .. k -> StructConds],
                     bs \in BlockSeqs(d - 1, in_loop, n, k) \cup BlockSeqs(d - 1, in_loop, n, k + 1)} :
                 k \in 1 .. MaxBranches}
          \cup {[e |-> WhileExpr(c, blk.e), next |-> blk.next] :
                   c \in StructConds, blk \in BlocksAt(d - 1, TRUE, n)}
          \cup {[e |-> LoopExpr(blk.e), next |-> blk.next] :
                   blk \in BlocksAt(d - 1, TRUE, n)})

\* The bodies of main: one statement of depth d, or two statements, or a
\* tail expression, of one level less.
FnBodies(d) ==
    BlocksAt(d, FALSE, FirstBlock)
        \cup UNION {{[e |-> BlockExpr(FirstBlock, <<ExprStmt(s1.e), ExprStmt(s2.e)>>, NoExpr),
                      next |-> s2.next] :
                        s2 \in ExprsAt(d - 1, FALSE, s1.next)} :
                    s1 \in ExprsAt(d - 1, FALSE, FirstBlock + 1)}
        \cup {[e |-> BlockExpr(FirstBlock, << >>, s.e), next |-> s.next] :
                 s \in ExprsAt(d - 1, FALSE, FirstBlock + 1)}

StructPrograms(d) == {File(<<ItemFn("main", body.e)>>, body.next) : body \in FnBodies(d)}

\* The scopes of a parsed file that declares no variable, after the resolver:
\* the built-in scope, the file's scope with the items' names and one scope
\* per block.
FileScopes(file) ==
    [s \in 0 .. file.num_scopes - 1 |->
        IF s = FileScope
        THEN [NewScope EXCEPT !.father = BuiltinScope,
                              !.types = {file.items[i].name : i \in DOMAIN file.items}]
        ELSE NewScope]

\* IRBuilder::new(optimize_level) in a build with or without debug
\* assertions, given the file.
InitBuilder(files, levels, builds) ==
    /\ prog \in files
    /\ \E optimize_level \in levels, debug \in builds :
          ir = NewIRBuilder(optimize_level, debug)
    /\ scopes = FileScopes(prog)
    /\ cur_scope = NoScope
    /\ scope_stack = << >>
    /\ phase = "ir_build"
    /\ stmt_no = [s \in ScopeIds |-> 0]
    /\ let_bound = [s \in ScopeIds |-> FALSE]
    /\ visited = {}
    /\ last = Idle

InitIR == InitBuilder(StructPrograms(MaxNest), {"Zero"}, {TRUE})

\* IRBuilder::generate_ir(ast)
GenerateIR ==
    /\ phase = "ir_build"
    /\ ir.status = "new"
    /\ LET b0 == [scopes |-> scopes, cur_scope |-> cur_scope,
                  scope_stack |-> scope_stack] @@ ir
           b == generate_ir(b0, prog)
       IN  /\ scopes' = b.scopes
           /\ cur_scope' = b.cur_scope
           /\ scope_stack' = b.scope_stack
           /\ ir' = [f \in DOMAIN ir |-> b[f]]
    /\ last' = [op |-> "generate_ir"]
    /\ UNCHANGED <<phase, stmt_no, let_bound, visited, prog>>

NextIR == GenerateIR

SpecIR == InitIR /\ [][NextIR]_vars

Lowered == last.op = "generate_ir" /\ ir.status = "ok"
JumpIds == {i \in 0 .. Len(ir.instructions) - 1 : IsJump(ir.instructions[i + 1])}
LabelAt(i) == ir.instructions[i + 1].label

\* C1: after the builder has lowered a program of nested if / else-if / else,
\* while, loop and break, every Jump, JumpIfNot and JumpIfCond has a
\* target_index that is the position of an existing instruction and is the
\* landing its construct means (the ghost note of the jump); also for a
\* jump that is instruction 0.
C1_EveryJumpLandsAsIntended ==
    Lowered =>
        \A i \in JumpIds :
            /\ LabelAt(i) < Len(ir.instructions)
            /\ \E g \in ir.ghost : g.idx = i /\ g.target = LabelAt(i)

\* C2: in an if with a following branch, the conditional jump of each
\* condition is patched to the first instruction of the next branch (the
\* one after the then-block's trailing Jump), and the Jump after each
\* non-final block is patched to the instruction following the whole if.
C2_CondJumpLandsOnNextBranch ==
    Lowered =>
        \A g \in ir.ghost :
            /\ (g.role = "if_next" /\ g.more => LabelAt(g.idx) = g.target)
            /\ (g.role = "if_end" => LabelAt(g.idx) = g.target)

-----------------------------------------------------------------------------
(* SpecCond: generate_ir on `fn main() { if l op r {} }` and                *)
(* `fn main() { while l op r {} }` for drawn i32 literals l, r              *)

\* The literals run over 0 .. MaxLit.
MaxLit == 2

CondExprs ==
    {BinOpExpr(op, LitNumExpr(DecimalDigits(l)), LitNumExpr(DecimalDigits(r))) :
        op \in CmpOperators \cup {"And"}, l \in 0 .. MaxLit, r \in 0 .. MaxLit}

CondPrograms ==
    {File(<<ItemFn("main",
              BlockExpr(FirstBlock,
                        <<ExprStmt(IfExpr(<<c>>, <<BlockExpr(FirstBlock + 1, << >>, NoExpr)>>))>>,
                        NoExpr))>>,
          FirstBlock + 2) : c \in CondExprs}
        \cup
    {File(<<ItemFn("main",
              BlockExpr(FirstBlock,
                        <<ExprStmt(WhileExpr(c, BlockExpr(FirstBlock + 1, << >>, NoExpr)))>>,
                        NoExpr))>>,
          FirstBlock + 2) : c \in CondExprs}

InitCond == InitBuilder(CondPrograms, {"Zero", "One"}, BOOLEAN)

NextCond == GenerateIR

SpecCond == InitCond /\ [][NextCond]_vars

\* The condition of the if or while that is main's only statement.
CondOf(file) ==
    LET e == file.items[1].fn_block.stmts[1].expr IN
    IF e.kind = "If" THEN e.conditions[1] ELSE e.cond

\* `l op r` on integers.
CmpHolds(op, l, r) ==
    CASE op = "EqEq" -> l = r
      [] op = "Ne" -> l # r
      [] op = "Lt" -> l < r
      [] op = "Le" -> l <= r
      [] op = "Gt" -> l > r
      [] op = "Ge" -> l >= r

\* JumpIfCond{cmp, src1, src2} is taken.
JumpTaken(cmp, src1, src2) ==
    CASE cmp = "JEq" -> src1 = src2
      [] cmp = "JNe" -> src1 # src2
      [] cmp = "JLt" -> src1 < src2
      [] cmp = "JGe" -> src1 >= src2

\* C9: for every comparison op used directly as an if or while condition
\* `l op r`, the fused JumpIfCond emitted (its kind and the order of its two
\* operands) is taken exactly when `l op r` is false.
C9_FusedJumpIsNegation ==
    (Lowered /\ CondOf(prog).bin_op \in CmpOperators) =>
        LET c == CondOf(prog)
            j == ir.instructions[1]
        IN  /\ j.inst = "JumpIfCond"
            /\ j.src1.kind = "I32"
            /\ j.src2.kind = "I32"
            /\ JumpTaken(j.cmp, j.src1.val, j.src2.val)
                   <=> ~CmpHolds(c.bin_op, DecimalValue(c.lhs.value), DecimalValue(c.rhs.value))

\* C9's case: `if 1 <= 2 {}` has been lowered to a JumpIfCond with the
\* operands swapped.
C9_Witness ==
    /\ Lowered
    /\ prog.items[1].fn_block.stmts[1].expr.kind = "If"
    /\ CondOf(prog) = BinOpExpr("Le", LitNumExpr(<<1>>), LitNumExpr(<<2>>))
    /\ ir.instructions[1].inst = "JumpIfCond"
    /\ ir.instructions[1].cmp = "JLt"
    /\ ir.instructions[1].src1 = OpI32(2)
    /\ ir.instructions[1].src2 = OpI32(1)

-----------------------------------------------------------------------------
(* SpecLet: SymbolResolver::visit_file and then IRBuilder::generate_ir on   *)
(* `fn main() { let a = <binary operation on i32 literals>; }`              *)

\* The two passes on a parsed file, as ir_build of tests.rs runs them.
InitPasses(files, levels, builds) ==
    /\ prog \in files
    /\ \E optimize_level \in levels, debug \in builds :
          ir = NewIRBuilder(optimize_level, debug)
    /\ scopes = FileScopes(prog)
    /\ cur_scope = NoScope
    /\ scope_stack = << >>
    /\ phase = "resolve"
    /\ stmt_no = [s \in ScopeIds |-> 0]
    /\ let_bound = [s \in ScopeIds |-> FALSE]
    /\ visited = {}
    /\ last = Idle

\* sym_resolver.visit_file(&mut ast.file): the IR builder runs only after Ok.
ResolveFile ==
    /\ phase = "resolve"
    /\ last = Idle
    /\ LET rs == resolve_file(NewResolver(scopes), prog) IN
          /\ scopes' = rs.scopes
          /\ last' = [op |-> "visit_file", status |-> rs.status, ident |-> rs.ident,
                      str_constants |-> rs.str_constants]
          /\ phase' = IF rs.status = "ok" THEN "ir_build" ELSE "rejected"
    /\ UNCHANGED <<cur_scope, scope_stack, stmt_no, let_bound, visited, prog, ir>>

NextPasses == ResolveFile \/ GenerateIR

\* fn main() { <stmts> } with its block and n further blocks.
Main(stmts, last_expr, n) ==
    File(<<ItemFn("main", BlockExpr(FirstBlock, stmts, last_expr))>>, FirstBlock + 1 + n)

Lit(n) == LitNumExpr(DecimalDigits(n))

\* The operators of `l op r` and those of the nested operations.
LetOperators == BinOperators \ {"AndAnd", "OrOr"}
NestOperators == {"Plus", "Minus", "Star"}

LitPairs(ops) == {BinOpExpr(op, Lit(l), Lit(r)) : op \in ops, l \in 0 .. MaxLit, r \in 0 .. MaxLit}

\* (l op r) op2 k and k op2 (l op r)
NestedLits ==
    UNION {{BinOpExpr(op2, inner, Lit(k)), BinOpExpr(op2, Lit(k), inner)} :
              op2 \in NestOperators, k \in 0 .. MaxLit, inner \in LitPairs(NestOperators)}

LetPrograms ==
    {Main(<<StmtLet("a", FALSE, e)>>, NoExpr, 0) : e \in LitPairs(LetOperators) \cup NestedLits}

InitLet == InitPasses(LetPrograms, {"Zero", "One"}, {TRUE})

SpecLet == InitLet /\ [][NextPasses]_vars

\* The right-hand side of main's first statement, a let.
LetRhs == prog.items[1].fn_block.stmts[1].rhs
IsLitPair(e) == e.kind = "BinOp" /\ e.lhs.kind = "LitNum" /\ e.rhs.kind = "LitNum"
\* The operand the fold of a literal operation gives.
Folded(e) ==
    bin_op_may_constant_fold(e.bin_op, OpI32(DecimalValue(e.lhs.value)),
                             OpI32(DecimalValue(e.rhs.value))).val.val
\* The place of main's variable a.
MainA(var_kind) == PlaceVariable("a", FirstBlock, var_kind)

-----------------------------------------------------------------------------
(* SpecLogic: the two passes on                                             *)
(* `fn f() -> bool { true } fn g() -> bool { true }                         *)
(*  fn main() { let a = <lhs> && <rhs>; }`, also with ||                    *)

LogicOperators == {"AndAnd", "OrOr"}

\* f() and g()
Call0(name) == CallExpr(PathExpr(name), << >>)

LogicPrograms ==
    {File(<<ItemFn("f", BlockExpr(FirstBlock, << >>, LitBool(TRUE))),
            ItemFn("g", BlockExpr(FirstBlock + 1, << >>, LitBool(TRUE))),
            ItemFn("main", BlockExpr(FirstBlock + 2,
                                     <<StmtLet("a", is_mut, BinOpExpr(op, lhs, rhs))>>,
                                     NoExpr))>>,
          FirstBlock + 3) :
        op \in LogicOperators, is_mut \in BOOLEAN,
        lhs \in {LitBool(TRUE), LitBool(FALSE), Call0("f")},
        rhs \in {LitBool(TRUE), LitBool(FALSE), Call0("g")}}

InitLogic == InitPasses(LogicPrograms, {"Zero", "One"}, BOOLEAN)

SpecLogic == InitLogic /\ [][NextPasses]_vars

\* The logic operation that main's let binds, and the positions (from 0) of
\* the calls of g in the IR.
LogicRhs == prog.items[3].fn_block.stmts[1].rhs
CallsOf(name) ==
    {i \in 0 .. Len(ir.instructions) - 1 :
        /\ ir.instructions[i + 1].inst = "Call"
        /\ ir.instructions[i + 1].callee = OpFnLabel(name)}

\* C13: when `let a = <lhs> && g();` (or with ||) has been lowered, a
\* JumpIfNot (for &&) or JumpIf (for ||) on the place that holds the left
\* operand stands before the right operand's Call and lands after the
\* right operand's instructions, so that the Call of g is skipped when the
\* left operand decides the result.
C13_ShortCircuitSkipsRhs ==
    (Lowered /\ LogicRhs.rhs.kind = "Call") =>
        \A c \in CallsOf("g") :
            \E j \in 0 .. c - 1 :
                /\ ir.instructions[j + 1].inst
                       = (IF LogicRhs.bin_op = "AndAnd" THEN "JumpIfNot" ELSE "JumpIf")
                /\ ir.instructions[j + 1].label > c

-----------------------------------------------------------------------------
(* SpecDest: IRBuilder::visit_expr(e, dest) on a drawn expression and a     *)
(* drawn dest (none, a temporary, the variable b), at the statement `e;`    *)
(* of `fn add(a: i32, b: i32) { a + b }                                    *)
(*     fn main() { let a = 1; let b = 0; e; }`                              *)
(* or of a block nested in main, after the resolver                         *)

\* The blocks of add, of main, of the block nested in main and of e.
FBlock == FirstBlock
MainBlock == FirstBlock + 1
NestedBlock == FirstBlock + 2
ExprBlock == FirstBlock + 3

\* The arguments of the drawn calls.
DestArgs == {<< >>, <<Lit(1), Lit(2)>>, <<PathExpr("a"), Call0("add")>>}

DestLeaves ==
    {PathExpr("a"), PathExpr("add"), LitChar("c"), LitStr("s")}
        \cup {Lit(n) : n \in 0 .. MaxLit} \cup {LitBool(v) : v \in BOOLEAN}

DestExprs ==
    DestLeaves
        \cup {CallExpr(PathExpr("add"), args) : args \in DestArgs}
        \cup {BinOpExpr("Plus", PathExpr("a"), Lit(1)), BinOpExpr("Plus", Lit(1), Lit(2)),
              BlockExpr(ExprBlock, << >>, Lit(1)),
              BlockExpr(ExprBlock, <<ExprStmt(Call0("add"))>>, PathExpr("a")),
              IfExpr(<<LitBool(TRUE)>>,
                     <<BlockExpr(ExprBlock, << >>, Lit(1)),
                       BlockExpr(ExprBlock + 1, << >>, Lit(2))>>),
              IfExpr(<<BinOpExpr("Lt", PathExpr("a"), Lit(1))>>,
                     <<BlockExpr(ExprBlock, << >>, PathExpr("a")),
                       BlockExpr(ExprBlock + 1, << >>, Lit(2))>>),
              LoopExpr(BlockExpr(ExprBlock, <<ExprStmt(BreakExpr(Lit(1)))>>, NoExpr)),
              ReturnExpr(Lit(1))}

DestProgram(e, nested, a_mut, b_mut) ==
    File(<<ItemFnParams("add", <<"a", "b">>,
                        BlockExpr(FBlock, << >>,
                                  BinOpExpr("Plus", PathExpr("a"), PathExpr("b")))),
           ItemFn("main",
                  BlockExpr(MainBlock,
                            <<StmtLet("a", a_mut, Lit(1)), StmtLet("b", b_mut, Lit(0)),
                              IF nested
                              THEN ExprStmt(BlockExpr(NestedBlock, <<ExprStmt(e)>>, NoExpr))
                              ELSE ExprStmt(e)>>,
                            NoExpr))>>,
         ExprBlock + 2)

\* The statement `e;` of the program and the expression e.
IsNested(file) == file.items[2].fn_block.stmts[3].expr.kind = "Block"
                     /\ file.items[2].fn_block.stmts[3].expr.scope_id = NestedBlock
HereExpr(file) ==
    IF IsNested(file) THEN file.items[2].fn_block.stmts[3].expr.stmts[1].expr
    ELSE file.items[2].fn_block.stmts[3].expr

\* visit_block_expr has entered the block.
BuilderInBlock(b, block) ==
    with_scope_stack(b, enter_scope(b.scopes, b.cur_scope, b.scope_stack, block))

\* visit_item_fn has pushed the return temporary t.
BuilderWithRetTemp(t) == [t.b EXCEPT !.fn_ret_temp_var = Append(@, t.place)]

\* visit_item_fn has reached main's block and visit_block_expr entered it.
BuilderInMain(b, block) ==
    BuilderInBlock(
        BuilderWithRetTemp(IRBuilder_gen_temp_variable(add_func(b, "main"), "Unit")), block)

\* visit_block_expr has entered the nested block, if the program has it.
BuilderInNested(file, b) == IF IsNested(file) THEN BuilderInBlock(b, NestedBlock) ELSE b

\* The builder when it reaches the statement `e;`: add has been lowered,
\* visit_item_fn has made main's return temporary and visit_block_expr has
\* entered main's block (and the nested block).
BuilderAtHere(file, scs, optimize_level, debug) ==
    BuilderInNested(
        file,
        BuilderInMain(
            visit_item_fn([scopes |-> scs, cur_scope |-> FileScope, scope_stack |-> << >>]
                              @@ [NewIRBuilder(optimize_level, debug) EXCEPT !.status = "ok"],
                          file.items[1]),
            MainBlock))

\* The dests drawn: none, a fresh temporary, the variable b.
DestKinds == {"none", "temp", "named"}
WithDest(b, file, dest_kind) ==
    CASE dest_kind = "none" -> [b |-> b, place |-> NoPlace]
      [] dest_kind = "temp" -> IRBuilder_gen_temp_variable(b, "I32")
      [] dest_kind = "named" ->
            [b |-> b,
             place |-> gen_variable(b, "b", IF file.items[2].fn_block.stmts[2].is_mut
                                            THEN "LocalMut" ELSE "Local").place]

\* The variables hold the builder d.b, about to lower into the place d.place.
InitDestWith(d) ==
    /\ scopes = d.b.scopes
    /\ cur_scope = d.b.cur_scope
    /\ scope_stack = d.b.scope_stack
    /\ ir = [f \in DOMAIN NewIRBuilder("Zero", FALSE) |-> d.b[f]]
    /\ last = [op |-> "none", dest |-> d.place]

\* The resolver has accepted the program.
InitDestResolved(rs, optimize_level, debug, dest_kind) ==
    /\ rs.status = "ok"
    /\ InitDestWith(WithDest(BuilderAtHere(prog, rs.scopes, optimize_level, debug),
                             prog, dest_kind))

InitDest ==
    /\ \E e \in DestExprs, nested \in BOOLEAN, a_mut \in BOOLEAN, b_mut \in BOOLEAN :
          prog = DestProgram(e, nested, a_mut, b_mut)
    /\ \E optimize_level \in {"Zero", "One"}, debug \in BOOLEAN, dest_kind \in DestKinds :
          InitDestResolved(resolve_file(NewResolver(FileScopes(prog)), prog),
                           optimize_level, debug, dest_kind)
    /\ phase = "visit_expr"
    /\ stmt_no = [s \in ScopeIds |-> 0]
    /\ let_bound = [s \in ScopeIds |-> FALSE]
    /\ visited = {}

\* The variables after visit_expr returned r; start was next_inst_id().
VisitExprResult(r, start) ==
    /\ scopes' = r.b.scopes
    /\ cur_scope' = r.b.cur_scope
    /\ scope_stack' = r.b.scope_stack
    /\ ir' = [f \in DOMAIN ir |-> r.b[f]]
    /\ last' = [op |-> "visit_expr", dest |-> last.dest, operand |-> r.operand,
                start |-> start]

\* self.visit_expr(e, dest)
VisitExpr ==
    /\ phase = "visit_expr"
    /\ last.op = "none"
    /\ VisitExprResult(visit_expr([scopes |-> scopes, cur_scope |-> cur_scope,
                                   scope_stack |-> scope_stack] @@ ir,
                                  HereExpr(prog), last.dest),
                       Len(ir.instructions))
    /\ UNCHANGED <<phase, stmt_no, let_bound, visited, prog>>

NextDest == VisitExpr

SpecDest == InitDest /\ [][NextDest]_vars

\* visit_expr has returned Ok; the instructions it has emitted.
Visited == last.op = "visit_expr" /\ ir.status = "ok"
Emitted == SubSeq(ir.instructions, last.start + 1, Len(ir.instructions))

\* The operand a leaf resolves to: the Place of the variable a, owned by
\* main's block, or the literal's operand.
LeafOperand(e) ==
    CASE e.kind = "Path" ->
            OpPlace(PlaceVariable("a", MainBlock,
                                  IF prog.items[2].fn_block.stmts[1].is_mut
                                  THEN "LocalMut" ELSE "Local"))
      [] e.kind = "LitNum" -> OpI32(DecimalValue(e.value))
      [] e.kind = "LitBool" -> OpBool(e.value)
      [] e.kind = "LitChar" -> OpChar(e.value)

\* C14: lowering the path a (a variable of main's block) or a numeric, bool
\* or char literal emits exactly the one LoadData(dest, operand) when a dest
\* is supplied and is not a temporary, and no instruction when the dest is a
\* temporary or there is none; with a dest the visitor returns the operand:
\* the Place a_<id of main's block> or the literal's operand.
C14_LeafLoadsIffNamedDest ==
    LET e == HereExpr(prog) IN
    (/\ last.op = "visit_expr"
     /\ e \in {PathExpr("a")} \cup {x \in DestLeaves : x.kind \in {"LitNum", "LitBool", "LitChar"}})
        => /\ ir.status = "ok"
           /\ Emitted = IF last.dest # NoPlace /\ ~is_temp(last.dest)
                        THEN <<IRLoadData(last.dest, LeafOperand(e))>>
                        ELSE << >>
           /\ last.dest # NoPlace => last.operand = LeafOperand(e)

\* C14's case: the path a was lowered from the nested block with the dest b:
\* LoadData(b_3, Place(a_3)) was emitted and Place(a_3) returned.
C14_Witness ==
    /\ Visited
    /\ HereExpr(prog) = PathExpr("a")
    /\ IsNested(prog)
    /\ last.dest # NoPlace
    /\ ~is_temp(last.dest)
    /\ last.operand = OpPlace(PlaceVariable("a", MainBlock, "Local"))
    /\ Emitted = <<IRLoadData(PlaceVariable("b", MainBlock, "LocalMut"), last.operand)>>

\* The instruction writes the place d.
WritesTo(inst, d) == inst.inst \in {"LoadData", "BinOp"} /\ inst.dest = d

\* The positions control can reach next from instruction i (from 0) unless
\* i writes d or returns.
NextUnwritten(i, d) ==
    LET inst == ir.instructions[i + 1] IN
    IF WritesTo(inst, d) \/ inst.inst = "Ret" THEN {}
    ELSE IF inst.inst = "Jump" THEN {inst.label}
    ELSE IF IsJump(inst) THEN {inst.label, i + 1}
    ELSE {i + 1}

\* The positions reached from those of S through the instructions visit_expr
\* has emitted, on paths that have not written d.
RECURSIVE Unwritten(_, _)
Unwritten(S, d) ==
    LET T == S \cup UNION {NextUnwritten(i, d) :
                              i \in {j \in S : j >= last.start /\ j < Len(ir.instructions)}}
    IN  IF T = S THEN S ELSE Unwritten(T, d)

\* C15: when an expression of a supported kind (a path, a numeric, bool,
\* char or string literal, a binary operation, a call, a block, an if, a
\* loop) has been lowered with the variable b as dest, every path through
\* the emitted instructions to the instruction after them passes a LoadData
\* or BinOp whose dest is b.
C15_NamedDestIsWritten ==
    (/\ Visited
     /\ last.dest # NoPlace
     /\ ~is_temp(last.dest)
     /\ HereExpr(prog).kind # "Return")
        => Len(ir.instructions) \notin Unwritten({last.start}, last.dest)

\* The LoadData that follows a Call when a dest is supplied.
RetLoad(d) == IF d # NoPlace THEN <<IRLoadData(d, OpFnRetPlace)>> ELSE << >>

\* C16: lowering `add(e1, ..., en)` emits the instructions of the arguments
\* in source order (none for a literal or the path of a variable lowered
\* into a temporary; Call{add, []} and LoadData(temporary, FnRetPlace) for
\* the argument `add()`), then the one Call{add, [operands of e1..en]}, then
\* LoadData(dest, FnRetPlace) exactly when a dest was supplied; it returns
\* Place(dest) with a dest and Unit without.  `add(1, 2);` gives
\* Call{add, [I32(1), I32(2)]}.
C16_CallLowering ==
    LET e == HereExpr(prog)
        d == last.dest
        add == OpFnLabel("add")
    IN  (last.op = "visit_expr" /\ e.kind = "Call") =>
            /\ ir.status = "ok"
            /\ last.operand = IF d # NoPlace THEN OpPlace(d) ELSE OpUnit
            /\ e.call_params = << >> => Emitted = <<IRCall(add, << >>)>> \o RetLoad(d)
            /\ e.call_params = <<Lit(1), Lit(2)>> =>
                  Emitted = <<IRCall(add, <<OpI32(1), OpI32(2)>>)>> \o RetLoad(d)
            /\ e.call_params = <<PathExpr("a"), Call0("add")>> =>
                  /\ Len(Emitted) >= 3
                  /\ Emitted[2].inst = "LoadData"
                  /\ is_temp(Emitted[2].dest)
                  /\ Emitted[2].dest # d
                  /\ Emitted =
                        <<IRCall(add, << >>), IRLoadData(Emitted[2].dest, OpFnRetPlace),
                          IRCall(add, <<LeafOperand(PathExpr("a")), OpPlace(Emitted[2].dest)>>)>>
                            \o RetLoad(d)

\* C16's case: the statement `add(1, 2);` of main has been lowered, with no
\* dest, to Call{add, [I32(1), I32(2)]} and Unit was returned.
C16_Witness ==
    /\ Visited
    /\ ~IsNested(prog)
    /\ HereExpr(prog) = CallExpr(PathExpr("add"), <<Lit(1), Lit(2)>>)
    /\ last.dest = NoPlace
    /\ last.operand = OpUnit
    /\ Emitted = <<IRCall(OpFnLabel("add"), <<OpI32(1), OpI32(2)>>)>>

-----------------------------------------------------------------------------
(* SpecResolve: SymbolResolver::visit_file on `fn main() { s1 s2 s3 }`      *)
(* with statements drawn from `let a = 3;`, `let mut a = 3;`,               *)
(* `fn foo() {}`, `fn foo() { let mut a = 3; }`, `a = 2;`, `{ a = 2; }`     *)
(* and `;`                                                                  *)

\* `a = 2`
AssignA == AssignExpr(PathExpr("a"), "Eq", Lit(2))

\* The statements drawn for position i; the block of the i-th statement has
\* the scope id FirstBlock + i.
ResolveStmts(i) ==
    {StmtLet("a", is_mut, Lit(3)) : is_mut \in BOOLEAN}
        \cup {StmtItem(ItemFn("foo", BlockExpr(FirstBlock + i, body, NoExpr))) :
                 body \in {<< >>, <<StmtLet("a", TRUE, Lit(3))>>}}
        \cup {ExprStmt(AssignA),
              ExprStmt(BlockExpr(FirstBlock + i, <<ExprStmt(AssignA)>>, NoExpr)),
              [kind |-> "Semi"]}

ResolvePrograms ==
    {Main(<<s1>>, NoExpr, MaxStmts + 1) : s1 \in ResolveStmts(1)}
        \cup {Main(<<s1, s2>>, NoExpr, MaxStmts + 1) :
                 s1 \in ResolveStmts(1), s2 \in ResolveStmts(2)}
        \cup {Main(<<s1, s2, s3>>, NoExpr, MaxStmts + 1) :
                 s1 \in ResolveStmts(1), s2 \in ResolveStmts(2), s3 \in ResolveStmts(3)}

InitResolve == InitPasses(ResolvePrograms, {"Zero"}, {TRUE})

NextResolve == ResolveFile

SpecResolve == InitResolve /\ [][NextResolve]_vars

\* What the scoping rules say of the statements from the i-th on, given the
\* binding of a that is visible ("none", "mut" or "imm"): "ok", or why the
\* first offending assignment is rejected.  A let binds from the next
\* statement on; the lets of a nested block or fn item end with it.
RECURSIVE ScopingSays(_, _, _)
ScopingSays(stmts, i, visible) ==
    IF i > Len(stmts) THEN "ok"
    ELSE LET stmt == stmts[i]
             inner ==
                 CASE stmt.kind = "Item" -> ScopingSays(stmt.item.fn_block.stmts, 1, visible)
                   [] stmt.kind = "ExprStmt" /\ stmt.expr.kind = "Block" ->
                         ScopingSays(stmt.expr.stmts, 1, visible)
                   [] stmt.kind = "ExprStmt" /\ stmt.expr.kind = "Assign" ->
                         IF visible = "none" THEN "not found"
                         ELSE IF visible = "imm" THEN "not mutable" ELSE "ok"
                   [] OTHER -> "ok"
         IN  IF inner # "ok" THEN inner
             ELSE ScopingSays(stmts, i + 1,
                              IF stmt.kind = "Let"
                              THEN (IF stmt.is_mut THEN "mut" ELSE "imm")
                              ELSE visible)

Resolved == last.op = "visit_file"

\* C17: the resolver accepts the program exactly when every assignment
\* `a = 2` comes after a `let mut a` of its block or of an enclosing block
\* that is the latest let of a before it; when no let of a is before the
\* assignment it stops with the error identifier `a` not found, and when the
\* latest is not mutable it stops with an error.  A fn item between the let
\* and the assignment, with or without a let of a inside, changes nothing.
C17_AssignNeedsEarlierLet ==
    Resolved =>
        LET says == ScopingSays(prog.items[1].fn_block.stmts, 1, "none") IN
        /\ says = "ok" <=> last.status = "ok"
        /\ says = "not found" <=>
               (last.status = "err: identifier not found" /\ last.ident = "a")
        /\ says = "not mutable" => last.status = "err: not mutable"

-----------------------------------------------------------------------------
(* SpecFn: the two passes on `fn main() { s1 s2 tail }` with statements     *)
(* drawn from `let b = 3 + 4;`, `return;`, `return 1;`, `;`,                *)
(* `while 1 < 2 {}`, `fn foo() {}` and a tail drawn from nothing, `1`,      *)
(* `b + 3`, `return 1`, `if true { 1 } else { 2 }`, `{ 1 }`                 *)

\* The statements drawn for position i; the block of the i-th statement has
\* the scope id FirstBlock + i.
FnStmts(i) ==
    {StmtLet("b", FALSE, BinOpExpr("Plus", Lit(3), Lit(4))),
     ExprStmt(ReturnExpr(NoExpr)), ExprStmt(ReturnExpr(Lit(1))), [kind |-> "Semi"],
     ExprStmt(WhileExpr(BinOpExpr("Lt", Lit(1), Lit(2)),
                        BlockExpr(FirstBlock + i, << >>, NoExpr))),
     StmtItem(ItemFn("foo", BlockExpr(FirstBlock + i, << >>, NoExpr)))}

\* The trailing expressions drawn; their blocks come after those of the
\* statements.
FnTails ==
    {NoExpr, Lit(1), BinOpExpr("Plus", PathExpr("b"), Lit(3)), ReturnExpr(Lit(1)),
     IfExpr(<<LitBool(TRUE)>>,
            <<BlockExpr(FirstBlock + MaxStmts + 1, << >>, Lit(1)),
              BlockExpr(FirstBlock + MaxStmts + 2, << >>, Lit(2))>>),
     BlockExpr(FirstBlock + MaxStmts + 1, << >>, Lit(1))}

FnPrograms ==
    {Main(stmts, tail, MaxStmts + 2) :
        stmts \in {<< >>} \cup {<<s1>> : s1 \in FnStmts(1)}
                      \cup {<<s1, s2>> : s1 \in FnStmts(1), s2 \in FnStmts(2)},
        tail \in FnTails}

InitFn == InitPasses(FnPrograms, {"Zero", "One"}, BOOLEAN)

SpecFn == InitFn /\ [][NextPasses]_vars

\* main's block, the temporary visit_item_fn makes for main's value, and
\* the number of the instructions that are a Ret.
MainBody == prog.items[1].fn_block
MainTemp == PlaceLocal(temp_local_var(0, FileScope))
Rets == Cardinality({i \in DOMAIN ir.instructions : ir.instructions[i].inst = "Ret"})
\* The Ret instructions the statements of main bring: one per return
\* statement and one per nested fn item (an empty fn).
StmtRets ==
    Cardinality({i \in DOMAIN MainBody.stmts :
                    \/ MainBody.stmts[i].kind = "Item"
                    \/ /\ MainBody.stmts[i].kind = "ExprStmt"
                       /\ MainBody.stmts[i].expr.kind = "Return"})

\* C18: when main has been lowered, its last instruction is a Ret.  An
\* empty body gives exactly Ret(Unit).  With a trailing expression the last
\* instruction is the Ret of the expression's operand: the literal's
\* operand, or the place the operation, the if or the return wrote (main's
\* temporary); for `let b = 3 + 4; b + 3` the IR is the two BinOp and
\* Ret(Place($0_1)).  When the last statement is `return ...;` the last
\* instruction is that return's Ret and no Ret is added; otherwise exactly
\* one Ret is added to those of the statements.
C18_FnEndsWithRet ==
    Lowered =>
        LET body == MainBody
            n == Len(ir.instructions)
            tail == body.last_expr
            last_stmt == body.stmts[Len(body.stmts)]
            returns_last == /\ tail = NoExpr
                            /\ body.stmts # << >>
                            /\ last_stmt.kind = "ExprStmt"
                            /\ last_stmt.expr.kind = "Return"
        IN  /\ n > 0
            /\ ir.instructions[n].inst = "Ret"
            /\ (body.stmts = << >> /\ tail = NoExpr) => ir.instructions = <<IRRet(OpUnit)>>
            /\ tail # NoExpr =>
                  ir.instructions[n] =
                      IRRet(IF tail.kind \in {"LitNum", "Block"} THEN OpI32(1)
                            ELSE OpPlace(MainTemp))
            /\ (body.stmts = <<StmtLet("b", FALSE, BinOpExpr("Plus", Lit(3), Lit(4)))>>
                  /\ tail = BinOpExpr("Plus", PathExpr("b"), Lit(3))
                  /\ ir.optimize_level = "Zero") =>
                  ir.instructions =
                      <<IRBinOp("Plus", "I32", PlaceVariable("b", FirstBlock, "Local"),
                                OpI32(3), OpI32(4)),
                        IRBinOp("Plus", "I32", MainTemp,
                                OpPlace(PlaceVariable("b", FirstBlock, "Local")), OpI32(3)),
                        IRRet(OpPlace(MainTemp))>>
            /\ returns_last =>
                  /\ ir.instructions[n] =
                        IRRet(IF last_stmt.expr.expr = NoExpr THEN OpUnit ELSE OpI32(1))
                  /\ Rets = StmtRets
            /\ (~returns_last /\ (tail = NoExpr \/ tail.kind # "Return")) =>
                  Rets = StmtRets + 1

\* C18's case: `fn main() { ; return 1; }` has been lowered to the one
\* Ret(I32(1)).
C18_Witness ==
    /\ Lowered
    /\ MainBody.stmts = <<[kind |-> "Semi"], ExprStmt(ReturnExpr(Lit(1)))>>
    /\ MainBody.last_expr = NoExpr
    /\ ir.instructions = <<IRRet(OpI32(1))>>

-----------------------------------------------------------------------------
(* SpecPrec: BinOperator::prec_lt and prec_gt on drawn operators *)

\* enum Precedence, in the order of its variants (the derived PartialOrd).
Precedences ==
    <<"Min", "OrOr", "AndAnd", "Cmp", "Or", "Xor", "And", "Shift", "Add", "Multi", "As">>
PrecedenceLt(p, q) ==
    \E i, j \in DOMAIN Precedences : Precedences[i] = p /\ Precedences[j] = q /\ i < j

\* A from_bin_op that gives the shifts the precedence of the additive operators.
from_bin_op_shift_as_add(op) ==
    CASE op = "As" -> "As"
      [] op \in {"Star", "Slash", "Percent"} -> "Multi"
      [] op \in {"Plus", "Minus", "Shl", "Shr"} -> "Add"
      [] op = "And" -> "And"
      [] op = "Caret" -> "Xor"
      [] op = "Or" -> "Or"
      [] op \in {"EqEq", "Ne", "Gt", "Lt", "Ge", "Le"} -> "Cmp"
      [] op = "AndAnd" -> "AndAnd"
      [] op = "OrOr" -> "OrOr"

\* Precedence::from_bin_op
from_bin_op(op) ==
    CASE op = "As" -> "As"
      [] op \in {"Star", "Slash", "Percent"} -> "Multi"
      [] op \in {"Plus", "Minus"} -> "Add"
      [] op \in {"Shl", "Shr"} -> "Shift"
      [] op = "And" -> "And"
      [] op = "Caret" -> "Xor"
      [] op = "Or" -> "Or"
      [] op \in {"EqEq", "Ne", "Gt", "Lt", "Ge", "Le"} -> "Cmp"
      [] op = "AndAnd" -> "AndAnd"
      [] op = "OrOr" -> "OrOr"

ChainedComparison == "Chained comparison operator require parentheses"

\* BinOperator::prec_lt
prec_lt(self, other) ==
    LET l_prec == from_bin_op(self)
        r_prec == from_bin_op(other)
    IN  IF l_prec = r_prec /\ l_prec = "Cmp" THEN Err(ChainedComparison)
        ELSE Ok(PrecedenceLt(l_prec, r_prec))

\* BinOperator::prec_gt
prec_gt(self, p) ==
    LET l_prec == from_bin_op(self) IN
    IF l_prec = p /\ l_prec = "Cmp" THEN Err(ChainedComparison)
    ELSE Ok(~PrecedenceLt(l_prec, p))

\* enum BinOperator
AllBinOperators == BinOperators \cup {"As"}

InitPrec ==
    /\ \E a \in AllBinOperators, b \in AllBinOperators : prog = [self |-> a, other |-> b]
    /\ ir = NoIR
    /\ scopes = InitScopes
    /\ cur_scope = FileScope
    /\ scope_stack = << >>
    /\ phase = "parse"
    /\ stmt_no = [s \in ScopeIds |-> 0]
    /\ let_bound = [s \in ScopeIds |-> FALSE]
    /\ visited = {}
    /\ last = Idle

\* self.prec_lt(&other)
PrecLt ==
    /\ phase = "parse"
    /\ last = Idle
    /\ last' = [op |-> "prec_lt", result |-> prec_lt(prog.self, prog.other)]
    /\ UNCHANGED <<scopeVarsButLast, prog, ir>>

\* self.prec_gt(&p)
PrecGt ==
    /\ phase = "parse"
    /\ last = Idle
    /\ \E i \in DOMAIN Precedences :
          last' = [op |-> "prec_gt", p |-> Precedences[i],
                   result |-> prec_gt(prog.self, Precedences[i])]
    /\ UNCHANGED <<scopeVarsButLast, prog, ir>>

NextPrec == PrecLt \/ PrecGt

SpecPrec == InitPrec /\ [][NextPrec]_vars

\* The binary operators from the lowest precedence to the highest: `||`,
\* `&&`, the comparisons, `|`, `^`, `&`, the shifts, the additive, the
\* multiplicative, `as`.
Ascending ==
    <<{"OrOr"}, {"AndAnd"}, {"EqEq", "Ne", "Lt", "Le", "Gt", "Ge"}, {"Or"}, {"Caret"}, {"And"},
      {"Shl", "Shr"}, {"Plus", "Minus"}, {"Star", "Slash", "Percent"}, {"As"}>>
StrictlyLower(a, b) ==
    \E i, j \in DOMAIN Ascending : a \in Ascending[i] /\ b \in Ascending[j] /\ i < j

\* C19: for any two binary operators a and b, prec_lt(a, b) is the error for
\* chained comparisons exactly when a and b are both comparison operators,
\* and otherwise Ok(a is strictly lower than b) in the order `||`, `&&`,
\* comparisons, `|`, `^`, `&`, shifts, additive, multiplicative, `as`.
C19_PrecLtFollowsOrder ==
    last.op = "prec_lt" =>
        last.result =
            IF prog.self \in CmpOperators /\ prog.other \in CmpOperators
            THEN Err(ChainedComparison)
            ELSE Ok(StrictlyLower(prog.self, prog.other))

\* C19's case: prec_lt(<<, +) has returned Ok(true).
C19_Witness ==
    /\ last.op = "prec_lt"
    /\ prog.self = "Shl"
    /\ prog.other = "Plus"
    /\ last.result = Ok(TRUE)

-----------------------------------------------------------------------------
(* SpecWhile: IRBuilder::visit_expr on the while of                         *)
(* `fn main() { while c { body } }` and of                                  *)
(* `fn main() { let a = 1 + 2; while c { body } }`, after the resolver      *)

WhileBlock == FirstBlock + 1

\* The conditions drawn: the comparisons, `true` and `1 & 2`.
WhileConds ==
    {BinOpExpr(op, Lit(1), Lit(2)) : op \in CmpOperators \cup {"And"}} \cup {LitBool(TRUE)}

Break == ExprStmt(BreakExpr(NoExpr))

\* The bodies drawn, with the offsets from the condition's jump of the Jump of
\* each break that leaves the while.
WhileBodies ==
    {[stmts |-> << >>, breaks |-> {}],
     [stmts |-> <<Break>>, breaks |-> {1}],
     [stmts |-> <<Break, Break>>, breaks |-> {1, 2}],
     [stmts |-> <<ExprStmt(IfExpr(<<LitBool(TRUE)>>,
                                  <<BlockExpr(WhileBlock + 1, <<Break>>, NoExpr)>>))>>,
      breaks |-> {2}],
     [stmts |-> <<ExprStmt(LoopExpr(BlockExpr(WhileBlock + 1, <<Break>>, NoExpr))), Break>>,
      breaks |-> {3}],
     [stmts |-> <<ExprStmt(WhileExpr(BinOpExpr("Lt", Lit(1), Lit(2)),
                                     BlockExpr(WhileBlock + 1, <<Break>>, NoExpr)))>>,
      breaks |-> {}]}

WhilePres == {<< >>, <<StmtLet("a", FALSE, BinOpExpr("Plus", Lit(1), Lit(2)))>>}

WhilePrograms ==
    {Main(pre \o <<ExprStmt(WhileExpr(c, BlockExpr(WhileBlock, body.stmts, NoExpr)))>>,
          NoExpr, 2) :
        pre \in WhilePres, c \in WhileConds, body \in WhileBodies}

\* The while of the program: main's last statement.
WhileOf(file) == file.items[1].fn_block.stmts[Len(file.items[1].fn_block.stmts)].expr

\* visit_stmt has lowered the statement before the while, if there is one.
BuilderBeforeWhile(stmts, b) == IF Len(stmts) = 1 THEN b ELSE visit_stmt(b, stmts[1])

\* The builder when it reaches the while: visit_item_fn has made main's
\* return temporary, visit_block_expr has entered main's block and lowered
\* the statements before the while.
BuilderAtWhile(file, scs, optimize_level, debug) ==
    BuilderBeforeWhile(
        file.items[1].fn_block.stmts,
        BuilderInMain([scopes |-> scs, cur_scope |-> FileScope, scope_stack |-> << >>]
                          @@ [NewIRBuilder(optimize_level, debug) EXCEPT !.status = "ok"],
                      FirstBlock))

\* The variables hold the builder b.
InitWhileWith(b) ==
    /\ b.status = "ok"
    /\ scopes = b.scopes
    /\ cur_scope = b.cur_scope
    /\ scope_stack = b.scope_stack
    /\ ir = [f \in DOMAIN NewIRBuilder("Zero", FALSE) |-> b[f]]

\* The resolver has accepted the program.
InitWhileResolved(rs, optimize_level, debug) ==
    /\ rs.status = "ok"
    /\ InitWhileWith(BuilderAtWhile(prog, rs.scopes, optimize_level, debug))

InitWhile ==
    /\ prog \in WhilePrograms
    /\ \E optimize_level \in {"Zero", "One"}, debug \in BOOLEAN :
          InitWhileResolved(resolve_file(NewResolver(FileScopes(prog)), prog),
                            optimize_level, debug)
    /\ last = Idle
    /\ phase = "visit_while_expr"
    /\ stmt_no = [s \in ScopeIds |-> 0]
    /\ let_bound = [s \in ScopeIds |-> FALSE]
    /\ visited = {}

\* The variables after visit_expr returned r; start was next_inst_id().
VisitWhileResult(r, start) ==
    /\ scopes' = r.b.scopes
    /\ cur_scope' = r.b.cur_scope
    /\ scope_stack' = r.b.scope_stack
    /\ ir' = [f \in DOMAIN ir |-> r.b[f]]
    /\ last' = [op |-> "visit_while_expr", operand |-> r.operand, start |-> start]

\* self.visit_expr(while, None), as visit_stmt calls it
VisitWhile ==
    /\ phase = "visit_while_expr"
    /\ last = Idle
    /\ VisitWhileResult(visit_expr([scopes |-> scopes, cur_scope |-> cur_scope,
                                    scope_stack |-> scope_stack] @@ ir,
                                   WhileOf(prog), NoPlace),
                        Len(ir.instructions))
    /\ UNCHANGED <<phase, stmt_no, let_bound, visited, prog>>

NextWhile == VisitWhile

SpecWhile == InitWhile /\ [][NextWhile]_vars

WhileLowered == last.op = "visit_while_expr" /\ ir.status = "ok"
\* The position (from 0) of the condition's jump: the first jump emitted.
CondJump ==
    CHOOSE i \in last.start .. Len(ir.instructions) - 1 :
        /\ IsJump(ir.instructions[i + 1])
        /\ \A j \in last.start .. i - 1 : ~IsJump(ir.instructions[j + 1])
\* The offsets of the breaks of the body drawn.
BreaksOf(file) ==
    (CHOOSE body \in WhileBodies : body.stmts = WhileOf(file).block.stmts).breaks

\* C20: when a while has been lowered, with loop_start the index of the
\* first instruction emitted for it (the condition's): the last instruction
\* emitted is Jump(loop_start) and no other instruction of the while is; the
\* condition's jump, which a comparison of literals makes the first
\* instruction, and the Jump of every break of the body hold the index just
\* after that back-edge Jump; and the while yields Unit.
C20_WhileLowering ==
    WhileLowered =>
        LET n == Len(ir.instructions)
            loop_start == last.start
            c == WhileOf(prog).cond
        IN  /\ last.operand = OpUnit
            /\ n > loop_start
            /\ ir.instructions[n] = IRJump(loop_start)
            /\ \A i \in loop_start + 1 .. n - 1 : ir.instructions[i] # IRJump(loop_start)
            /\ (c.kind = "BinOp" /\ c.bin_op \in CmpOperators) => CondJump = loop_start
            /\ ir.instructions[CondJump + 1].label = n
            /\ \A o \in BreaksOf(prog) : ir.instructions[CondJump + o + 1] = IRJump(n)

-----------------------------------------------------------------------------
(* SpecLoop: the resolver and then IRBuilder::generate_ir on                *)
(* `fn main() { [let a = 1 + 2;] L }` with L a `loop { .. }` statement, a   *)
(* `while 1 < 2 { .. }` statement or `let x = loop { .. };`, the bodies     *)
(* holding breaks, ifs and inner loops                                      *)

\* How many statements the body of the outer loop has.
MaxBody == 2

LoopBody == FirstBlock + 1
\* The two block scopes the i-th statement of the body may use.
ItemBlock(i) == FirstBlock + 2 * i
OneLtTwo == BinOpExpr("Lt", Lit(1), Lit(2))
IfTrue(block, stmts) == ExprStmt(IfExpr(<<LitBool(TRUE)>>, <<BlockExpr(block, stmts, NoExpr)>>))
BreakValue(n) == ExprStmt(BreakExpr(Lit(n)))

\* The statements an outer loop without a value may have at position i.
UnitItems(i) ==
    {Break,
     IfTrue(ItemBlock(i), <<Break>>),
     ExprStmt(LoopExpr(BlockExpr(ItemBlock(i), <<Break>>, NoExpr))),
     ExprStmt(WhileExpr(OneLtTwo, BlockExpr(ItemBlock(i), <<Break>>, NoExpr))),
     ExprStmt(LoopExpr(BlockExpr(ItemBlock(i),
                                 <<IfTrue(ItemBlock(i) + 1, <<Break>>), Break>>, NoExpr))),
     StmtLet("y", FALSE, LoopExpr(BlockExpr(ItemBlock(i), <<BreakValue(2)>>, NoExpr)))}

\* The statements of an outer `let x = loop { .. }` at position i.
ValueItems(i) ==
    {BreakValue(1),
     IfTrue(ItemBlock(i), <<BreakValue(1)>>),
     ExprStmt(LoopExpr(BlockExpr(ItemBlock(i), <<Break>>, NoExpr))),
     ExprStmt(WhileExpr(OneLtTwo, BlockExpr(ItemBlock(i), <<Break>>, NoExpr))),
     StmtLet("y", FALSE, LoopExpr(BlockExpr(ItemBlock(i), <<BreakValue(2)>>, NoExpr)))}

\* The statement sequences of at most n statements, the i-th from items[i].
RECURSIVE BodiesOf(_, _, _)
BodiesOf(unit, i, n) ==
    IF i > n THEN {<< >>}
    ELSE {<< >>} \cup
         {<<s>> \o rest : s \in (IF unit THEN UnitItems(i) ELSE ValueItems(i)),
                          rest \in BodiesOf(unit, i + 1, n)}

LoopStmts ==
    {ExprStmt(LoopExpr(BlockExpr(LoopBody, body, NoExpr))) :
        body \in BodiesOf(TRUE, 1, MaxBody) \ {<< >>}}
    \cup {ExprStmt(WhileExpr(OneLtTwo, BlockExpr(LoopBody, body, NoExpr))) :
            body \in BodiesOf(TRUE, 1, MaxBody) \ {<< >>}}
    \cup {StmtLet("x", FALSE, LoopExpr(BlockExpr(LoopBody, body, NoExpr))) :
            body \in BodiesOf(FALSE, 1, MaxBody) \ {<< >>}}

LoopPrograms ==
    {Main(pre \o <<l>>, NoExpr, 2 * MaxBody + 2) : pre \in WhilePres, l \in LoopStmts}

InitLoop == InitPasses(LoopPrograms, {"Zero", "One"}, BOOLEAN)

SpecLoop == InitLoop /\ [][NextPasses]_vars

\* What the language says of the drawn statements, without the builder: how
\* many instructions a statement is lowered to (a break is a Jump, after the
\* LoadData of its value; an `if true` and a `while 1 < 2` are one
\* conditional jump and the block; a loop or while ends with its back-edge).
RECURSIVE InstCount(_)
RECURSIVE InstCounts(_)
InstCounts(stmts) ==
    IF stmts = << >> THEN 0 ELSE InstCount(Head(stmts)) + InstCounts(Tail(stmts))
InstCount(s) ==
    CASE s.kind = "ExprStmt" -> InstCount(s.expr)
      [] s.kind = "Let" ->
            IF s.rhs.kind = "BinOp" THEN 1 ELSE InstCount(s.rhs)
      [] s.kind = "Break" -> IF s.expr = NoExpr THEN 1 ELSE 2
      [] s.kind = "If" -> 1 + InstCounts(s.blocks[1].stmts)
      [] s.kind = "Loop" -> InstCounts(s.expr.stmts) + 1
      [] s.kind = "While" -> 1 + InstCounts(s.block.stmts) + 1

\* The loop expression of a statement, or NoExpr.
LoopOf(s) ==
    IF s.kind = "ExprStmt" /\ s.expr.kind \in {"Loop", "While"} THEN s.expr
    ELSE IF s.kind = "Let" /\ s.rhs.kind = "Loop" THEN s.rhs
    ELSE NoExpr
LoopBlock(l) == IF l.kind = "Loop" THEN l.expr ELSE l.block

\* The breaks of the loop whose body holds stmts, the first of them lowered
\* at instruction at: [jump, value], the index of the break's Jump and the
\* value broken with.  The breaks of an inner loop are not among them.
RECURSIVE OwnBreaks(_, _)
OwnBreaks(stmts, at) ==
    IF stmts = << >> THEN {}
    ELSE LET s == Head(stmts)
             here ==
                 IF s.kind = "ExprStmt" /\ s.expr.kind = "Break"
                 THEN {[jump |-> at + InstCount(s) - 1, value |-> s.expr.expr]}
                 ELSE IF s.kind = "ExprStmt" /\ s.expr.kind = "If"
                 THEN OwnBreaks(s.expr.blocks[1].stmts, at + 1)
                 ELSE {}
         IN  here \cup OwnBreaks(Tail(stmts), at + InstCount(s))

\* Every loop among stmts (a block of scope sid, lowered from instruction at
\* on) and inside them: [start, back, dest, breaks] with start the loop's
\* first instruction, back the index of its back-edge Jump, dest the place
\* the loop is lowered into and breaks its own breaks.
RECURSIVE LoopsIn(_, _, _)
LoopsIn(stmts, sid, at) ==
    IF stmts = << >> THEN {}
    ELSE LET s == Head(stmts)
             l == LoopOf(s)
             body_at == IF l # NoExpr /\ l.kind = "While" THEN at + 1 ELSE at
             here ==
                 IF l # NoExpr
                 THEN {[start |-> at,
                        back |-> at + InstCount(s) - 1,
                        dest |-> IF s.kind = "Let"
                                 THEN PlaceVariable(s.ident, sid, "Local") ELSE NoPlace,
                        breaks |-> OwnBreaks(LoopBlock(l).stmts, body_at)]}
                      \cup LoopsIn(LoopBlock(l).stmts, LoopBlock(l).scope_id, body_at)
                 ELSE IF s.kind = "ExprStmt" /\ s.expr.kind = "If"
                 THEN LoopsIn(s.expr.blocks[1].stmts, s.expr.blocks[1].scope_id, at + 1)
                 ELSE {}
         IN  here \cup LoopsIn(Tail(stmts), sid, at + InstCount(s))

ProgramLoops == LoopsIn(MainBody.stmts, FirstBlock, 0)
InstAt(i) == ir.instructions[i + 1]

\* C21: when a program of nested loops has been lowered, the loop stack is
\* empty again; every loop ends with its back-edge Jump to its own start;
\* the Jump of each break holds the index just after the back-edge of the
\* innermost loop around it; and a `break e` of a loop lowered into d has
\* LoadData(d, value of e) as the instruction just before its Jump.
C21_BreakLeavesInnermostLoop ==
    Lowered =>
        /\ ir.loop_var_stack = << >>
        /\ \A l \in ProgramLoops :
              /\ InstAt(l.back) = IRJump(l.start)
              /\ \A br \in l.breaks :
                    /\ InstAt(br.jump) = IRJump(l.back + 1)
                    /\ br.value # NoExpr =>
                          InstAt(br.jump - 1) =
                              IRLoadData(l.dest, OpI32(DecimalValue(br.value.value)))

-----------------------------------------------------------------------------
(* SpecShadow: the resolver and then IRBuilder::generate_ir on              *)
(* `fn main() { s1 .. sn }` with each statement one of `let a = 1;`,        *)
(* `let mut a = 2;`, `let b = a;` and `;`                                   *)

\* How many statements main has.
MaxShadow == 4

UseA == StmtLet("b", FALSE, PathExpr("a"))
ShadowItems ==
    {StmtLet("a", FALSE, Lit(1)), StmtLet("a", TRUE, Lit(2)), UseA, [kind |-> "Semi"]}

RECURSIVE ShadowStmts(_)
ShadowStmts(n) ==
    IF n = 0 THEN {<< >>}
    ELSE {<< >>} \cup {<<s>> \o rest : s \in ShadowItems, rest \in ShadowStmts(n - 1)}

ShadowPrograms == {Main(stmts, NoExpr, 0) : stmts \in ShadowStmts(MaxShadow) \ {<< >>}}

InitShadow == InitPasses(ShadowPrograms, {"Zero"}, BOOLEAN)

SpecShadow == InitShadow /\ [][NextPasses]_vars

\* The resolver accepted the program and generate_ir has returned.
Generated == last.op = "generate_ir"
VarKindOf(let_stmt) == IF let_stmt.is_mut THEN "LocalMut" ELSE "Local"
\* The lets of a before statement k, and the latest of them.
LetsOfA(stmts, k) == {i \in 1 .. k - 1 : stmts[i].kind = "Let" /\ stmts[i].ident = "a"}
LatestLetOfA(stmts, k) ==
    CHOOSE i \in LetsOfA(stmts, k) : \A j \in LetsOfA(stmts, k) : j <= i
\* The index of the one instruction statement k is lowered to: every
\* statement but `;` gives one LoadData.
InstOfStmt(stmts, k) == Cardinality({i \in 1 .. k - 1 : stmts[i].kind # "Semi"})

\* C22: when the resolver has accepted the program and the builder has
\* lowered it, the builder has returned Ok and each use `let b = a;` in
\* statement k is the load of the place of a with the mutability kind of
\* the latest let of a before statement k.
C22_UseSeesLatestLetBefore ==
    Generated =>
        /\ ir.status = "ok"
        /\ \A k \in DOMAIN MainBody.stmts :
              MainBody.stmts[k] = UseA =>
                  InstAt(InstOfStmt(MainBody.stmts, k)) =
                      IRLoadData(
                          PlaceVariable("b", FirstBlock, "Local"),
                          OpPlace(PlaceVariable(
                              "a", FirstBlock,
                              VarKindOf(MainBody.stmts[LatestLetOfA(MainBody.stmts, k)]))))

\* ---------------------------------------------------------------------
\* Lookups and the equality branch of the binary search
\* ---------------------------------------------------------------------

\* The resolver ended in the unreachable!() of Scope::find_variable.
ResolverPanicked == last.op = "visit_file" /\ last.status = "panic: unreachable"

\* generate_ir ended in the unreachable!() of Scope::find_variable, reached
\* from gen_variable or from visit_path_expr.
BuilderPanicked ==
    Generated /\ ir.status \in {"panic: gen_variable", "panic: unreachable"}

\* C23: no lookup compares cur_stmt_id with an entry of the same stmt_id:
\* neither the resolver nor generate_ir ends in the unreachable!() of the
\* binary search.
C23_LookupNeverComparesEqual == ~ResolverPanicked /\ ~BuilderPanicked

\* ---------------------------------------------------------------------
\* The fold and the optimize level
\* ---------------------------------------------------------------------

\* The errors of bin_op_may_constant_fold.
FoldErrors ==
    {"add overflow", "sub overflow", "mul overflow", "div overflow", "shl overflow",
     "shr overflow", "rem overflow"}

\* generate_ir at level Zero returned an error of the fold.
FoldErrorAtZero ==
    Generated /\ ir.optimize_level = "Zero" /\ ir.status \in FoldErrors

\* C24: at optimize level Zero, lowering `let a = l op r;` with two i32
\* literals never returns an error of the fold and emits the plain BinOp on
\* the two literals.
C24_NoFoldAtLevelZero ==
    (Generated /\ ir.optimize_level = "Zero" /\ IsLitPair(LetRhs)) =>
        /\ ir.status \notin FoldErrors
        /\ Len(ir.instructions) >= 1
        /\ ir.instructions[1] =
              IRBinOp(LetRhs.bin_op, ir.instructions[1].ty, MainA("Local"),
                      OpI32(DecimalValue(LetRhs.lhs.value)),
                      OpI32(DecimalValue(LetRhs.rhs.value)))

\* ---------------------------------------------------------------------
\* Refinement of a literal type by update_variable_type
\* ---------------------------------------------------------------------

\* The concrete types a placeholder is refined to.
ConcreteOf(placeholder) ==
    CASE placeholder = "I" -> IntegerTypes
      [] placeholder = "F" -> FloatTypes
      [] OTHER -> {}

\* update_variable_type has been called on a variable with one entry, of the
\* placeholder type I, with the new type I32.
RefinesPlaceholder ==
    /\ last.op = "update_variable_type"
    /\ last.res.found
    /\ Len(last.before[last.res.scope].variables[IdentName(last.ident)]) = 1
    /\ TypeAt(last.before, last.res, IdentName(last.ident)) = "I"
    /\ last.new_type = "I32"

\* C25: on a visible variable of the placeholder type I (F),
\* update_variable_type with a concrete integer (float) type returns Ok and
\* the variable's type becomes that type; on a variable of a concrete type an
\* update with a different concrete type or with Bool returns "invalid type".
C25_LiteralRefinement ==
    (last.op = "update_variable_type" /\ last.res.found) =>
        LET name == IdentName(last.ident)
            cur_type == TypeAt(last.before, last.res, name)
        IN  /\ last.new_type \in ConcreteOf(cur_type) =>
                  /\ last.result = "ok"
                  /\ TypeAt(scopes, last.res, name) = last.new_type
            /\ (/\ cur_type \in IntegerTypes \cup FloatTypes
                /\ last.new_type \in (IntegerTypes \cup FloatTypes \cup {"Bool"}) \ {cur_type})
                  => last.result = "invalid type"

\* ---------------------------------------------------------------------
\* Lookups from a nested block into the block that holds it
\* ---------------------------------------------------------------------

\* The entries of "a" in the father of the scope the last lookup started in.
FatherEntries ==
    LET father == scopes[last.start].father IN
    IF DefinesIn(scopes, father, IdentName(last.ident))
    THEN scopes[father].variables[IdentName(last.ident)] ELSE << >>

\* The statement the father of the starting scope is at.
FatherStmtId == scopes[scopes[last.start].father].cur_stmt_id

\* A lookup from a nested block that has no entry of its own, when the block
\* that holds it has entries before its current statement and none at it.
LookupInFather ==
    /\ last.op = "find_variable"
    /\ OwnEntries = << >>
    /\ FatherEntries # << >>
    /\ \A i \in 1 .. Len(FatherEntries) : FatherEntries[i].stmt_id # FatherStmtId
    /\ \E i \in 1 .. Len(FatherEntries) : FatherEntries[i].stmt_id < FatherStmtId

\* C26: a lookup started in a nested block for an identifier defined only in
\* the block that holds it returns that block's entry with the greatest
\* stmt_id below that block's own cur_stmt_id, whatever the nested block's
\* cur_stmt_id is.
C26_FatherEntryAtFatherStmt ==
    LookupInFather =>
        /\ last.res.found
        /\ last.res.scope = scopes[last.start].father
        /\ last.res.idx \in 0 .. Len(FatherEntries) - 1
        /\ FatherEntries[last.res.idx + 1].stmt_id < FatherStmtId
        /\ \A i \in 1 .. Len(FatherEntries) :
               FatherEntries[i].stmt_id < FatherStmtId
                   => FatherEntries[i].stmt_id <= FatherEntries[last.res.idx + 1].stmt_id

\* `let mut a; let a; { a }`: the block that holds the nested block is at
\* statement 3 with entries stamped 1 and 2, the nested block is at its
\* statement 1, and the lookup has returned the entry stamped 1.
ShadowedEntryReturned ==
    /\ LookupInFather
    /\ Len(FatherEntries) = 2
    /\ FatherEntries[1].stmt_id = 1
    /\ FatherEntries[2].stmt_id = 2
    /\ FatherStmtId = 3
    /\ last.q = 1
    /\ last.res.found
    /\ last.res.idx = 0

\* ---------------------------------------------------------------------
\* find_variable_mut against find_variable
\* ---------------------------------------------------------------------

\* The entries the last find_variable_mut searched.
MutEntries == last.before[last.mut.scope].variables[IdentName(last.ident)]

\* find_variable_mut has returned a reference one past the entries.
MutPastTheEnd ==
    /\ last.op = "update_variable_type"
    /\ last.mut.found
    /\ last.mut.idx = Len(MutEntries)

\* C27: find_variable_mut returns the same entry and scope id as
\* find_variable, and the entry it returns is one of the entries.
C27_MutLookupAgrees ==
    last.op = "update_variable_type" =>
        /\ last.mut.found = last.res.found
        /\ last.mut.panic = last.res.panic
        /\ last.mut.found =>
              /\ last.mut.scope = last.res.scope
              /\ last.mut.idx = last.res.idx
              /\ last.mut.idx \in 0 .. Len(MutEntries) - 1

\* ---------------------------------------------------------------------
\* The instructions of a fn item nested in a function
\* ---------------------------------------------------------------------

\* The functions add_func recorded after main: the fn items nested in it.
NestedFuncs == {ir.funcs[i] : i \in 2 .. Len(ir.funcs)}

\* The indices of main's instructions: from its first_inst_index to its
\* last Ret, the last instruction of the list.
MainRange == ir.funcs[1].first .. Len(ir.instructions) - 1

\* C28: the instructions of a fn item nested in main are not among main's:
\* the first_inst_index of the nested function is outside the range from
\* main's first instruction to main's last Ret.
C28_NestedFnOutsideEnclosing ==
    Lowered => \A f \in NestedFuncs : f.first \notin MainRange

\* `fn main() { let b = 3 + 4; fn foo() {} b + 3 }` lowered at level Zero:
\* foo's Ret is between the two BinOp of main.
NestedRetInTheMiddle ==
    /\ Lowered
    /\ Len(ir.funcs) = 2
    /\ ir.funcs[2].first = 1
    /\ Len(ir.instructions) = 4
    /\ ir.instructions[1].inst = "BinOp"
    /\ ir.instructions[2] = IRRet(OpUnit)
    /\ ir.instructions[3].inst = "BinOp"
    /\ ir.instructions[4] = IRRet(OpPlace(MainTemp))

\* ---------------------------------------------------------------------
\* The value of an if lowered into a temporary
\* ---------------------------------------------------------------------

\* The indices of the instructions that write the place d.
WritersOf(d) == {i \in DOMAIN ir.instructions : WritesTo(ir.instructions[i], d)}

\* main's trailing expression is an if, lowered into main's temporary, and
\* the Ret reads the temporary.
IfIntoTemp ==
    /\ Lowered
    /\ MainBody.last_expr.kind = "If"
    /\ ir.instructions[Len(ir.instructions)] = IRRet(OpPlace(MainTemp))

\* C29: when main's trailing `if c { 1 } else { 2 }` has been lowered into
\* main's temporary and the Ret returns that place, each of the two branches
\* has emitted an instruction that writes the temporary.
C29_EveryBranchWritesTemp ==
    IfIntoTemp => Cardinality(WritersOf(MainTemp)) >= Len(MainBody.last_expr.blocks)

\* The temporary returned by the Ret is written by no instruction.
TempNeverWritten == IfIntoTemp /\ WritersOf(MainTemp) = {}

-----------------------------------------------------------------------------
(* SpecCursor: ParseCursor, the token cursor of the parser, on drawn token  *)
(* streams and any sequence of its operations.  The cursor is held in prog. *)

\* The length of the drawn token streams.
MaxTokens == 3

\* enum Token: two identifiers, a literal and a punctuation.
TokIdentifier(s) == [tok |-> "Identifier", s |-> s]
TokLiteral(literal_kind, value) ==
    [tok |-> "Literal", literal_kind |-> literal_kind, value |-> value]
Tokens ==
    {TokIdentifier("a"), TokIdentifier("b"), TokLiteral("Integer", "1"), [tok |-> "Semi"]}

\* The token streams of a given length.
RECURSIVE TokenStreams(_)
TokenStreams(n) ==
    IF n = 0 THEN {<< >>}
    ELSE {Append(ts, tk) : ts \in TokenStreams(n - 1), tk \in Tokens}

\* The slices given to eat_token_in: no token, one token, two tokens.
TokenSlices == {<< >>} \cup {<<t>> : t \in Tokens} \cup {<<t, u>> : t \in Tokens, u \in Tokens}

EOFToken == "EOF token"

\* ParseCursor::new
NewParseCursor(token_stream) == [token_stream |-> token_stream, token_idx |-> 0]

\* self.token_stream.get(self.token_idx): Some(tk) inside the stream.
token_stream_get(c) ==
    IF c.token_idx < Len(c.token_stream) THEN Some(c.token_stream[c.token_idx + 1]) ELSE None

\* ParseCursor::next_token
next_token(c) ==
    IF token_stream_get(c).some THEN Ok(token_stream_get(c).val) ELSE Err(EOFToken)

\* ParseCursor::bump_token: [c, result], the cursor after it and what it
\* returned
bump_token(c) ==
    IF token_stream_get(c).some
    THEN [c |-> [c EXCEPT !.token_idx = @ + 1], result |-> Ok(token_stream_get(c).val)]
    ELSE [c |-> c, result |-> Err(EOFToken)]

\* ParseCursor::err
err(expect) == <<"error in parsing: except ", expect>>

\* eat_identifier, the match on what bump_token()? gave
eat_identifier_match(bumped) ==
    IF ~bumped.result.ok THEN bumped
    ELSE IF bumped.result.val.tok = "Identifier"
    THEN [c |-> bumped.c, result |-> Ok(bumped.result.val.s)]
    ELSE [c |-> bumped.c, result |-> Err(err("identifier"))]

\* ParseCursor::eat_identifier
eat_identifier(c) == eat_identifier_match(bump_token(c))

\* eat_literal, the match on what bump_token()? gave
eat_literal_match(bumped) ==
    IF ~bumped.result.ok THEN bumped
    ELSE IF bumped.result.val.tok = "Literal"
    THEN [c |-> bumped.c,
          result |-> Ok(<<bumped.result.val.literal_kind, bumped.result.val.value>>)]
    ELSE [c |-> bumped.c, result |-> Err(err("literal"))]

\* ParseCursor::eat_literal
eat_literal(c) == eat_literal_match(bump_token(c))

\* eat_token, the comparison of what bump_token()? gave with tk
eat_token_match(bumped, tk) ==
    IF ~bumped.result.ok THEN bumped
    ELSE IF bumped.result.val # tk
    THEN [c |-> bumped.c, result |-> Err(err([to_string |-> tk]))]
    ELSE [c |-> bumped.c, result |-> Ok(OpUnit)]

\* ParseCursor::eat_token
eat_token(c, tk) == eat_token_match(bump_token(c), tk)

\* An eat_token_in that takes the token before it compares, as eat_token does.
eat_token_in_bump_first(c, tks) ==
    IF ~bump_token(c).result.ok THEN bump_token(c)
    ELSE IF \E i \in DOMAIN tks : tks[i] = bump_token(c).result.val THEN bump_token(c)
    ELSE [c |-> bump_token(c).c, result |-> Err(err([debug |-> tks]))]

\* ParseCursor::eat_token_in
eat_token_in(c, tks) ==
    IF ~next_token(c).ok THEN [c |-> c, result |-> next_token(c)]
    ELSE IF \E i \in DOMAIN tks : next_token(c).val = tks[i] THEN bump_token(c)
    ELSE [c |-> c, result |-> Err(err([debug |-> tks]))]

\* ParseCursor::eat_token_if
eat_token_if(c, tk) ==
    IF next_token(c).ok /\ next_token(c).val = tk
    THEN [c |-> bump_token(c).c, result |-> TRUE]
    ELSE [c |-> c, result |-> FALSE]

\* ParseCursor::is_eof
is_eof(c) == c.token_idx = Len(c.token_stream)

InitCursor ==
    /\ \E n \in 0 .. MaxTokens : \E ts \in TokenStreams(n) : prog = NewParseCursor(ts)
    /\ ir = NoIR
    /\ scopes = InitScopes
    /\ cur_scope = FileScope
    /\ scope_stack = << >>
    /\ phase = "parse"
    /\ stmt_no = [s \in ScopeIds |-> 0]
    /\ let_bound = [s \in ScopeIds |-> FALSE]
    /\ visited = {}
    /\ last = Idle

\* The variables after an operation of the cursor returned r: the cursor
\* becomes r.c, and last notes the operation, its argument, the position
\* before it and what it returned.
CursorResult(op, arg, r) ==
    /\ prog' = r.c
    /\ last' = [op |-> op, arg |-> arg, before |-> prog.token_idx, result |-> r.result]
    /\ UNCHANGED <<scopeVarsButLast, ir>>

NextToken ==
    /\ phase = "parse"
    /\ CursorResult("next_token", << >>, [c |-> prog, result |-> next_token(prog)])

BumpToken ==
    /\ phase = "parse"
    /\ CursorResult("bump_token", << >>, bump_token(prog))

EatIdentifier ==
    /\ phase = "parse"
    /\ CursorResult("eat_identifier", << >>, eat_identifier(prog))

EatLiteral ==
    /\ phase = "parse"
    /\ CursorResult("eat_literal", << >>, eat_literal(prog))

EatToken ==
    /\ phase = "parse"
    /\ \E tk \in Tokens : CursorResult("eat_token", tk, eat_token(prog, tk))

EatTokenIn ==
    /\ phase = "parse"
    /\ \E tks \in TokenSlices : CursorResult("eat_token_in", tks, eat_token_in(prog, tks))

EatTokenIf ==
    /\ phase = "parse"
    /\ \E tk \in Tokens : CursorResult("eat_token_if", tk, eat_token_if(prog, tk))

IsEof ==
    /\ phase = "parse"
    /\ CursorResult("is_eof", << >>, [c |-> prog, result |-> is_eof(prog)])

NextCursor ==
    \/ NextToken
    \/ BumpToken
    \/ EatIdentifier
    \/ EatLiteral
    \/ EatToken
    \/ EatTokenIn
    \/ EatTokenIf
    \/ IsEof

SpecCursor == InitCursor /\ [][NextCursor]_vars

\* The number of tokens, and the token the last operation found at the
\* position it started from.
NumTokens == Len(prog.token_stream)
TokenBefore == prog.token_stream[last.before + 1]

\* What the last operation returned is the error "EOF token", or false for
\* eat_token_if.
ReturnedEOF ==
    IF last.op = "eat_token_if" THEN last.result = FALSE ELSE last.result = Err(EOFToken)

\* The last operation did not find the token it was given: an eat_token_in
\* whose slice does not hold the token at the position, or an eat_token_if of
\* another token.
NonMatching ==
    /\ last.before < NumTokens
    /\ \/ last.op = "eat_token_in" /\ \A i \in DOMAIN last.arg : last.arg[i] # TokenBefore
       \/ last.op = "eat_token_if" /\ last.arg # TokenBefore

\* C30: after any sequence of operations of the cursor, token_idx is within
\* 0 .. number of tokens; the last operation moved it forward by at most one;
\* an operation started at the end of the stream returned the error "EOF
\* token" (false for eat_token_if) and left the position unchanged;
\* next_token, a non-matching eat_token_in and a non-matching eat_token_if
\* left it unchanged; is_eof holds exactly when token_idx is the number of
\* tokens.
C30_CursorStaysInStream ==
    /\ prog.token_idx \in 0 .. NumTokens
    /\ is_eof(prog) <=> prog.token_idx = NumTokens
    /\ last # Idle =>
          /\ prog.token_idx \in {last.before, last.before + 1}
          /\ last.op = "is_eof" => last.result = (last.before = NumTokens)
          /\ (last.before = NumTokens /\ last.op # "is_eof") =>
                (ReturnedEOF /\ prog.token_idx = last.before)
          /\ last.op = "next_token" => prog.token_idx = last.before
          /\ NonMatching => prog.token_idx = last.before

\* C30's case: after a token has been taken, an eat_token_in whose slice does
\* not hold the next token has returned its error and left the position at 1,
\* before the end of the stream.
C30_Witness ==
    /\ last.op = "eat_token_in"
    /\ last.before = 1
    /\ NonMatching
    /\ last.arg # << >>
    /\ ~last.result.ok
    /\ last.result # Err(EOFToken)
    /\ prog.token_idx = 1
    /\ ~is_eof(prog)

\* An operation started at the end of a stream of tokens has returned the
\* error "EOF token".
AtEndOfStream ==
    /\ last.op = "eat_token"
    /\ NumTokens > 0
    /\ last.before = NumTokens
    /\ last.result = Err(EOFToken)

====
